---------------------------- MODULE Spec2Model ----------------------------
(***************************************************************************)
(* A model of the MOSAiC under-ice sunlight pipeline                       *)
(* (nsidc/mosaic_sunlight_underseaice): the derived-field assigners of     *)
(* mosaic_thickness.py, the range check of clean_mosaic_data.py and the    *)
(* raw-file reformatter of reformat_magnaprobe.py.                         *)
(*                                                                         *)
(* Numbers.  The code works on float64; the model uses integers.  Depths   *)
(* and thicknesses are in tenths of a metre (3 is 0.3 m), so every         *)
(* comparison with 0. of the code is a comparison with 0 here.  NaN is a   *)
(* value of its own: every ordered comparison with it is false, as in      *)
(* IEEE-754.                                                               *)
(*                                                                         *)
(* Tables.  A pandas.DataFrame is a record [index, columns, data]:         *)
(* index the row labels, columns the column names in order, data the       *)
(* column of each name, a sequence as long as the index.                   *)
(*                                                                         *)
(* Text.  A str is a sequence of one-character strings.                    *)
(***************************************************************************)
EXTENDS Integers, Sequences, FiniteSets, TLC

VARIABLES
    df,         \* the table the derived-field functions work on (in place)
    df_in,      \* the table as it was when the last call started
    called,     \* the function called last ("" before any call)
    args,       \* the arguments of the last call, when it is not made on df
    ret,        \* what the last call returned (None if nothing)
    raised,     \* the exception the last call raised ("" if none)
    warned,     \* the warnings the last call emitted, in order
    files,      \* the file system: the lines of the file at each path
    files_in,   \* the file system as it was when the last call started
    printed,    \* what the last call printed, line by line
    model_runs  \* the inputs SeaIceRT was run on during the last call, in order

vars ==
    <<df, df_in, called, args, ret, raised, warned, files, files_in, printed,
      model_runs>>

(***************************************************************************)
(* Bounds of the model.                                                    *)
(***************************************************************************)
\* rows of a table whose measurements vary
MaxRows == 2
\* points of a transect whose coordinates vary
MaxPoints == 3

(***************************************************************************)
(* Values.                                                                 *)
(***************************************************************************)
\* np.nan.  No measurement of the model equals it.
NaN == -9999

None == <<"None">>

isna(v) == v = NaN
notna(v) == v # NaN

\* v > k and v <= k on float64: false when v is NaN
gt(v, k) == notna(v) /\ notna(k) /\ v > k
le(v, k) == notna(v) /\ notna(k) /\ v <= k
ge(v, k) == notna(v) /\ notna(k) /\ v >= k

(***************************************************************************)
(* pandas                                                                  *)
(***************************************************************************)
\* len(df)
nrows(d) == Len(d.index)

\* 'c' in df
in_df(c, d) == \E i \in 1..Len(d.columns) : d.columns[i] = c

\* df['c'] = s : replaces the column, or appends it as the last column
setitem(d, c, s) ==
    [index   |-> d.index,
     columns |-> IF in_df(c, d) THEN d.columns ELSE Append(d.columns, c),
     data    |-> [k \in (DOMAIN d.data) \cup {c} |->
                     IF k = c THEN s ELSE d.data[k]]]

\* df['c'] = v for a scalar v : the scalar on every row
broadcast(d, v) == [i \in 1..nrows(d) |-> v]

\* where keeping the entries that are NaN
where_keep_na(s, cond, other) ==
    [i \in 1..Len(s) |-> IF cond[i] \/ isna(s[i]) THEN s[i] ELSE other]

\* series.where(cond, other) : the entry where cond is True, other elsewhere
where(s, cond, other) == [i \in 1..Len(s) |-> IF cond[i] THEN s[i] ELSE other]

\* series > k (elementwise)
series_gt(s, k) == [i \in 1..Len(s) |-> gt(s[i], k)]


(***************************************************************************)
(* numpy                                                                   *)
(***************************************************************************)
\* np.roll(a, 1) : every element one place to the right, the last one first
np_roll(a) == [i \in 1..Len(a) |-> a[((i - 2) % Len(a)) + 1]]

\* np.sqrt on the squares the model's coordinates produce: the exact root of
\* a perfect square (Coords is chosen so that every squared distance is one)
np_sqrt(k) == CHOOSE r \in 0..k : r * r <= k /\ (r + 1) * (r + 1) > k

\* np.cumsum(a) : the running sum
RECURSIVE np_sum(_, _)
np_sum(a, i) == IF i = 0 THEN 0 ELSE np_sum(a, i - 1) + a[i]

np_cumsum(a) == [i \in 1..Len(a) |-> np_sum(a, i)]

\* np.select(condlist, choicelist) : per row the choice of the first
\* condition that is True, and the default 0 where none is
RECURSIVE first_true(_, _, _)
first_true(condlist, i, k) ==
    IF k > Len(condlist) THEN 0
    ELSE IF condlist[k][i] THEN k
    ELSE first_true(condlist, i, k + 1)

np_select(condlist, choicelist) ==
    [i \in 1..Len(condlist[1]) |->
        LET k == first_true(condlist, i, 1)
        IN  IF k = 0 THEN 0 ELSE choicelist[k]]

(***************************************************************************)
(* mosaic_thickness.py                                                     *)
(***************************************************************************)
CH_18KHZ == "ice_thickness_18khz_ip_m"
CH_F18325HZ == "ice_thickness_f18325hz_hcp_i_m"

KEEP_THESE_COLUMNS ==
    <<"lon", "lat", "local_x", "local_y",
      "ice_thickness_m", "snow_depth_m",
      "melt_pond_depth_m", "surface_type",
      "transect_distance_m", "ice_thickness_flag">>

\* transect_distance without line 54 (x1[0], y1[0] = x1[1], y1[1]): the first
\* point's previous point is the last point, as np.roll leaves it
transect_distance_wrapped(x0, y0) ==
    LET x1 == np_roll(x0)
        y1 == np_roll(y0)
    IN  np_cumsum([i \in 1..Len(x0) |->
            np_sqrt((x1[i] - x0[i]) * (x1[i] - x0[i])
                    + (y1[i] - y0[i]) * (y1[i] - y0[i]))])

\* transect_distance without np.cumsum: the step to each point, not the sum
transect_distance_steps(x0, y0) ==
    LET rx == np_roll(x0)
        ry == np_roll(y0)
        x1 == [rx EXCEPT ![1] = rx[2]]
        y1 == [ry EXCEPT ![1] = ry[2]]
    IN  [i \in 1..Len(x0) |->
            np_sqrt((x1[i] - x0[i]) * (x1[i] - x0[i])
                    + (y1[i] - y0[i]) * (y1[i] - y0[i]))]

\* transect_distance(x0, y0), for len(x0) >= 2 (x1[1] raises IndexError below)
transect_distance(x0, y0) ==
    LET rx == np_roll(x0)
        ry == np_roll(y0)
        x1 == [rx EXCEPT ![1] = rx[2]]
        y1 == [ry EXCEPT ![1] = ry[2]]
    IN  np_cumsum([i \in 1..Len(x0) |->
            np_sqrt((x1[i] - x0[i]) * (x1[i] - x0[i])
                    + (y1[i] - y0[i]) * (y1[i] - y0[i]))])

\* infer_surface_type with the choices of snow and pond exchanged
infer_surface_type_swapped(d) ==
    LET snow == d.data["snow_depth_m"]
        pond == d.data["melt_pond_depth_m"]
        n    == Len(snow)
        conditions ==
            << [i \in 1..n |-> gt(snow[i], 0) /\ le(pond[i], 0)],
               [i \in 1..n |-> le(snow[i], 0) /\ gt(pond[i], 0)],
               [i \in 1..n |-> le(snow[i], 0) /\ le(pond[i], 0)],
               [i \in 1..n |-> gt(snow[i], 0) /\ gt(pond[i], 0)] >>
        choices == <<-1, 1, 2, NaN>>
    IN  np_select(conditions, choices)

\* infer_surface_type(df), for a df that has both depth columns
infer_surface_type(d) ==
    LET snow == d.data["snow_depth_m"]
        pond == d.data["melt_pond_depth_m"]
        n    == Len(snow)
        conditions ==
            << [i \in 1..n |-> gt(snow[i], 0) /\ le(pond[i], 0)],
               [i \in 1..n |-> le(snow[i], 0) /\ gt(pond[i], 0)],
               [i \in 1..n |-> le(snow[i], 0) /\ le(pond[i], 0)],
               [i \in 1..n |-> gt(snow[i], 0) /\ gt(pond[i], 0)] >>
        choices == <<1, -1, 2, NaN>>
    IN  np_select(conditions, choices)

\* assign_ice_thickness looking for the f18325hz channel first
assign_ice_thickness_swapped(d) ==
    IF in_df(CH_F18325HZ, d)
    THEN [df |-> setitem(setitem(d, "ice_thickness_m", d.data[CH_F18325HZ]),
                         "ice_thickness_flag", broadcast(d, 2)),
          warnings |-> <<"Using ice_thickness_f18325hz_hcp_i_m for ice thickness">>]
    ELSE IF in_df(CH_18KHZ, d)
    THEN [df |-> setitem(setitem(d, "ice_thickness_m", d.data[CH_18KHZ]),
                         "ice_thickness_flag", broadcast(d, 1)),
          warnings |-> <<>>]
    ELSE [df |-> setitem(setitem(d, "ice_thickness_m", broadcast(d, NaN)),
                         "ice_thickness_flag", broadcast(d, 0)),
          warnings |-> <<"Expected ice_thickness column not found">>]

\* assign_ice_thickness clamping the thickness at 0, as the depth assigners
assign_ice_thickness_clamped(d) ==
    IF in_df(CH_18KHZ, d)
    THEN [df |-> setitem(setitem(d, "ice_thickness_m",
                                 where(d.data[CH_18KHZ],
                                       series_gt(d.data[CH_18KHZ], 0), 0)),
                         "ice_thickness_flag", broadcast(d, 1)),
          warnings |-> <<>>]
    ELSE IF in_df(CH_F18325HZ, d)
    THEN [df |-> setitem(setitem(d, "ice_thickness_m",
                                 where(d.data[CH_F18325HZ],
                                       series_gt(d.data[CH_F18325HZ], 0), 0)),
                         "ice_thickness_flag", broadcast(d, 2)),
          warnings |-> <<"Using ice_thickness_f18325hz_hcp_i_m for ice thickness">>]
    ELSE [df |-> setitem(setitem(d, "ice_thickness_m", broadcast(d, NaN)),
                         "ice_thickness_flag", broadcast(d, 0)),
          warnings |-> <<"Expected ice_thickness column not found">>]

\* assign_ice_thickness(df) : the table after the call and the warnings
assign_ice_thickness(d) ==
    IF in_df(CH_18KHZ, d)
    THEN [df |-> setitem(setitem(d, "ice_thickness_m", d.data[CH_18KHZ]),
                         "ice_thickness_flag", broadcast(d, 1)),
          warnings |-> <<>>]
    ELSE IF in_df(CH_F18325HZ, d)
    THEN [df |-> setitem(setitem(d, "ice_thickness_m", d.data[CH_F18325HZ]),
                         "ice_thickness_flag", broadcast(d, 2)),
          warnings |-> <<"Using ice_thickness_f18325hz_hcp_i_m for ice thickness">>]
    ELSE [df |-> setitem(setitem(d, "ice_thickness_m", broadcast(d, NaN)),
                         "ice_thickness_flag", broadcast(d, 0)),
          warnings |-> <<"Expected ice_thickness column not found">>]

\* assign_melt_pond_depth with the clamp at -2 (-0.2 m) instead of 0
assign_melt_pond_depth_low(d) ==
    IF in_df("melt_pond_depth_m", d)
    THEN [df |-> setitem(d, "melt_pond_depth_m",
                         where(d.data["melt_pond_depth_m"],
                               series_gt(d.data["melt_pond_depth_m"], -2), 0)),
          warnings |-> <<>>]
    ELSE [df |-> setitem(d, "melt_pond_depth_m", broadcast(d, 0)),
          warnings |-> <<"melt_pond_depth_m not found in dataFrame; adding column of zeros">>]

\* assign_melt_pond_depth(df)
assign_melt_pond_depth(d) ==
    IF in_df("melt_pond_depth_m", d)
    THEN [df |-> setitem(d, "melt_pond_depth_m",
                         where(d.data["melt_pond_depth_m"],
                               series_gt(d.data["melt_pond_depth_m"], 0), 0)),
          warnings |-> <<>>]
    ELSE [df |-> setitem(d, "melt_pond_depth_m", broadcast(d, 0)),
          warnings |-> <<"melt_pond_depth_m not found in dataFrame; adding column of zeros">>]

\* assign_snow_depth adding a missing column as zeros, as the pond assigner
assign_snow_depth_zeros(d) ==
    IF in_df("snow_depth_m", d)
    THEN [df |-> setitem(d, "snow_depth_m",
                         where(d.data["snow_depth_m"],
                               series_gt(d.data["snow_depth_m"], 0), 0)),
          warnings |-> <<>>]
    ELSE [df |-> setitem(d, "snow_depth_m", broadcast(d, 0)),
          warnings |-> <<"snow_depth_m not found in dataFrame;adding column of NaN">>]

\* assign_snow_depth(df)
assign_snow_depth(d) ==
    IF in_df("snow_depth_m", d)
    THEN [df |-> setitem(d, "snow_depth_m",
                         where(d.data["snow_depth_m"],
                               series_gt(d.data["snow_depth_m"], 0), 0)),
          warnings |-> <<>>]
    ELSE [df |-> setitem(d, "snow_depth_m", broadcast(d, NaN)),
          warnings |-> <<"snow_depth_m not found in dataFrame;adding column of NaN">>]

\* df[names] : the named columns, in the order of names
getitem_columns(d, names) ==
    [index   |-> d.index,
     columns |-> names,
     data    |-> [k \in {names[i] : i \in 1..Len(names)} |-> d.data[k]]]

\* parse_raw_combined_data, from the loaded table on, for a table of at
\* least two rows: the table returned and the warnings, in order
parse_raw_combined_data(d) ==
    LET a == assign_ice_thickness(d)
        b == assign_melt_pond_depth(a.df)
        c == assign_snow_depth(b.df)
        e == IF in_df("surface_type", c.df) THEN c.df
             ELSE setitem(c.df, "surface_type", infer_surface_type(c.df))
        f == setitem(e, "transect_distance_m",
                     transect_distance(e.data["local_x"], e.data["local_y"]))
    IN  [df |-> getitem_columns(f, KEEP_THESE_COLUMNS),
         warnings |-> a.warnings \o b.warnings \o c.warnings]

(***************************************************************************)
(* The tables the calls are made on.  Every table has lon, lat, local_x    *)
(* and local_y; a raw file may or may not have the two thickness channels  *)
(* the code looks for, snow depth, melt-pond depth and surface type.       *)
(* Four families of tables are explored, each varying one group of         *)
(* columns over all its values and holding the others fixed.               *)
(***************************************************************************)
RAW_ORDER ==
    <<"lon", "lat", "local_x", "local_y", "snow_depth_m",
      "melt_pond_depth_m", "surface_type", CH_18KHZ, CH_F18325HZ>>

OPTIONAL_COLUMNS ==
    {"snow_depth_m", "melt_pond_depth_m", "surface_type", CH_18KHZ, CH_F18325HZ}

\* thickness readings: positive, negative, missing
ThickVals == {10, -2, NaN}
\* depths: negative, zero, positive, missing
DepthVals == {-1, 0, 3, NaN}
\* local coordinates: a 3-4-5 grid, so that every distance is a whole number
CoordX == {0, 3}
CoordY == {0, 4}

\* a table of n rows with coordinates xs, ys and the optional columns of opt
Table(n, xs, ys, opt) ==
    [index   |-> [i \in 1..n |-> i],
     columns |-> SelectSeq(RAW_ORDER,
                    LAMBDA c : c \notin OPTIONAL_COLUMNS \/ c \in DOMAIN opt),
     data    |-> [c \in {"lon", "lat", "local_x", "local_y"} \cup DOMAIN opt |->
                    CASE c = "lon"     -> [i \in 1..n |-> 0]
                      [] c = "lat"     -> [i \in 1..n |-> 90]
                      [] c = "local_x" -> xs
                      [] c = "local_y" -> ys
                      [] OTHER         -> opt[c]]]

\* every assignment of a series over vals to every subset of names
Columns(n, names, vals) ==
    UNION { [P -> [1..n -> vals]] : P \in SUBSET names }

DiagX(n) == [i \in 1..n |-> 3 * (i - 1)]
DiagY(n) == [i \in 1..n |-> 4 * (i - 1)]

ThicknessTables(n) ==
    { Table(n, DiagX(n), DiagY(n), f) :
        f \in Columns(n, {CH_18KHZ, CH_F18325HZ}, ThickVals) }

DepthTables(n) ==
    { Table(n, DiagX(n), DiagY(n), f) :
        f \in Columns(n, {"snow_depth_m", "melt_pond_depth_m"}, DepthVals) }

CoordTables(n) ==
    { Table(n, xs, ys, (CH_18KHZ :> [i \in 1..n |-> 10])) :
        xs \in [1..n -> CoordX], ys \in [1..n -> CoordY] }

\* the value a column holds on every row of a table of PresenceTables
FixedValue(c) ==
    CASE c = "snow_depth_m"      -> 3
      [] c = "melt_pond_depth_m" -> 0
      [] c = "surface_type"      -> 1
      [] c = CH_18KHZ            -> 10
      [] c = CH_F18325HZ         -> 13

PresenceTables(n) ==
    { Table(n, DiagX(n), DiagY(n), [c \in P |-> [i \in 1..n |-> FixedValue(c)]]) :
        P \in SUBSET OPTIONAL_COLUMNS }

Tables ==
    UNION ( { ThicknessTables(n) \cup DepthTables(n) \cup PresenceTables(n) :
                n \in 1..MaxRows }
            \cup { CoordTables(n) : n \in 1..MaxPoints } )

(***************************************************************************)
(* The calls on a table.  The three assigners change df in place; the      *)
(* others return a value and leave df alone.                               *)
(***************************************************************************)
Init ==
    /\ df \in Tables
    /\ df_in = df
    /\ called = ""
    /\ args = None
    /\ ret = None
    /\ raised = ""
    /\ warned = <<>>
    /\ files = <<>>
    /\ files_in = <<>>
    /\ printed = <<>>
    /\ model_runs = <<>>

Call_assign_ice_thickness ==
    \E r \in {assign_ice_thickness(df)} :
        /\ df_in' = df
        /\ df' = r.df
        /\ warned' = r.warnings
        /\ called' = "assign_ice_thickness"
        /\ ret' = None
        /\ raised' = ""
        /\ UNCHANGED <<args, files, files_in, printed, model_runs>>

Call_assign_melt_pond_depth ==
    \E r \in {assign_melt_pond_depth(df)} :
        /\ df_in' = df
        /\ df' = r.df
        /\ warned' = r.warnings
        /\ called' = "assign_melt_pond_depth"
        /\ ret' = None
        /\ raised' = ""
        /\ UNCHANGED <<args, files, files_in, printed, model_runs>>

Call_assign_snow_depth ==
    \E r \in {assign_snow_depth(df)} :
        /\ df_in' = df
        /\ df' = r.df
        /\ warned' = r.warnings
        /\ called' = "assign_snow_depth"
        /\ ret' = None
        /\ raised' = ""
        /\ UNCHANGED <<args, files, files_in, printed, model_runs>>

\* df.snow_depth_m of a table without the column raises AttributeError
Call_infer_surface_type ==
    /\ called' = "infer_surface_type"
    /\ df_in' = df
    /\ warned' = <<>>
    /\ IF in_df("snow_depth_m", df) /\ in_df("melt_pond_depth_m", df)
       THEN ret' = infer_surface_type(df) /\ raised' = ""
       ELSE ret' = None /\ raised' = "AttributeError"
    /\ UNCHANGED <<df, args, files, files_in, printed, model_runs>>

\* x1[1] of an array of one element raises IndexError
Call_transect_distance ==
    /\ called' = "transect_distance"
    /\ df_in' = df
    /\ warned' = <<>>
    /\ IF nrows(df) >= 2
       THEN /\ ret' = transect_distance(df.data["local_x"], df.data["local_y"])
            /\ raised' = ""
       ELSE ret' = None /\ raised' = "IndexError"
    /\ UNCHANGED <<df, args, files, files_in, printed, model_runs>>

\* parse_raw_combined_data(fp), df being what load_reformatted_combined_data
\* read from fp; the assigners have warned before transect_distance raises
Call_parse_raw_combined_data ==
    /\ called' = "parse_raw_combined_data"
    /\ df_in' = df
    /\ IF nrows(df) >= 2
       THEN \E r \in {parse_raw_combined_data(df)} :
                ret' = r.df /\ warned' = r.warnings /\ raised' = ""
       ELSE /\ ret' = None
            /\ raised' = "IndexError"
            /\ warned' = assign_ice_thickness(df).warnings
                         \o assign_melt_pond_depth(df).warnings
                         \o assign_snow_depth(df).warnings
    /\ UNCHANGED <<df, args, files, files_in, printed, model_runs>>

Next ==
    \/ Call_assign_ice_thickness
    \/ Call_assign_melt_pond_depth
    \/ Call_assign_snow_depth
    \/ Call_infer_surface_type
    \/ Call_transect_distance
    \/ Call_parse_raw_combined_data

Spec == Init /\ [][Next]_vars

(***************************************************************************)
(* clean_mosaic_data.py: check_data_range                                  *)
(***************************************************************************)
\* series.between(left, right) : left <= entry <= right, False for NaN
between(s, left, right) ==
    [i \in 1..Len(s) |-> ge(s[i], left) /\ le(s[i], right)]

\* the number of True entries of mask[series.notna()] == False
out_of_range_sum(s, in_range) ==
    Cardinality({i \in 1..Len(s) : notna(s[i]) /\ in_range[i] = FALSE})

\* check_data_range warning for every entry outside the range, null or not
check_data_range_warn_nulls(series, min_value, max_value, fix, fill_value) ==
    LET in_range == between(series, min_value, max_value)
        n_out    == Cardinality({i \in 1..Len(series) : in_range[i] = FALSE})
    IN  [value    |-> IF fix THEN where(series, in_range, fill_value) ELSE series,
         warnings |-> IF n_out > 0
                      THEN << <<"Out of range values found", n_out>> >>
                      ELSE <<>>]

\* check_data_range(series, min_value, max_value, fix, fill_value) : the
\* series returned and the warnings emitted
check_data_range(series, min_value, max_value, fix, fill_value) ==
    LET in_range == between(series, min_value, max_value)
        n_out    == out_of_range_sum(series, in_range)
    IN  [value    |-> IF fix THEN where(series, in_range, fill_value) ELSE series,
         warnings |-> IF n_out > 0
                      THEN << <<"Out of range values found", n_out>> >>
                      ELSE <<>>]

\* the longest series checked
MaxSeries == 2

\* entries: below, on and above the bounds, and missing
RangeVals == {-1, 0, 3, 4, NaN}
\* the test's bounds [0, 3], and a narrower pair
MinValues == {0, 3}
MaxValues == {3}
\* np.nan (the default) and the missing-data code of the cleaned files
FillValues == {NaN, -999}

RangeArgs ==
    [series     : UNION {[1..n -> RangeVals] : n \in 0..MaxSeries},
     min_value  : MinValues,
     max_value  : MaxValues,
     fix        : BOOLEAN,
     fill_value : FillValues]

InitRange ==
    /\ df = None
    /\ df_in = None
    /\ called = ""
    /\ args = None
    /\ ret = None
    /\ raised = ""
    /\ warned = <<>>
    /\ files = <<>>
    /\ files_in = <<>>
    /\ printed = <<>>
    /\ model_runs = <<>>

Call_check_data_range ==
    \E a \in RangeArgs :
        \E r \in {check_data_range(a.series, a.min_value, a.max_value,
                                   a.fix, a.fill_value)} :
            /\ called' = "check_data_range"
            /\ args' = a
            /\ ret' = r.value
            /\ warned' = r.warnings
            /\ raised' = ""
            /\ UNCHANGED <<df, df_in, files, files_in, printed, model_runs>>

NextRange == Call_check_data_range

SpecRange == InitRange /\ [][NextRange]_vars

(***************************************************************************)
(* str                                                                     *)
(***************************************************************************)
\* s[a:b] with 1-based, inclusive a and exclusive b
slice(s, a, b) == [i \in 1..(IF b > a THEN b - a ELSE 0) |-> s[a + i - 1]]

\* s.endswith(t), s.startswith(t) at position i
startswith_at(s, t, i) ==
    /\ i + Len(t) - 1 <= Len(s)
    /\ \A j \in 1..Len(t) : s[i + j - 1] = t[j]

endswith(s, t) == Len(s) >= Len(t) /\ startswith_at(s, t, Len(s) - Len(t) + 1)

\* s.split(sep) for a one-character sep: the fields between the separators
\* (one more field than there are separators; [''] for the empty string)
RECURSIVE split_from(_, _, _, _)
split_from(s, sep, start, i) ==
    IF i > Len(s) THEN <<slice(s, start, i)>>
    ELSE IF s[i] = sep
         THEN <<slice(s, start, i)>> \o split_from(s, sep, i + 1, i + 1)
         ELSE split_from(s, sep, start, i + 1)

split(s, sep) == split_from(s, sep, 1, 1)

\* sep.join(parts)
RECURSIVE join(_, _)
join(sep, parts) ==
    IF Len(parts) = 0 THEN <<>>
    ELSE IF Len(parts) = 1 THEN parts[1]
    ELSE parts[1] \o sep \o join(sep, Tail(parts))

isspace(c) == c \in {" ", "\t", "\n", "\r"}

\* s.strip() : without leading and trailing whitespace
RECURSIVE lstrip(_)
lstrip(s) == IF Len(s) > 0 /\ isspace(s[1]) THEN lstrip(Tail(s)) ELSE s

RECURSIVE rstrip(_)
rstrip(s) ==
    IF Len(s) > 0 /\ isspace(s[Len(s)]) THEN rstrip(slice(s, 1, Len(s))) ELSE s

strip(s) == rstrip(lstrip(s))

\* s.split() : the maximal runs of non-whitespace characters
whitespace_split(s) ==
    SelectSeq(split([i \in 1..Len(s) |-> IF isspace(s[i]) THEN " " ELSE s[i]], " "),
              LAMBDA f : Len(f) > 0)

\* c.lower() for the letters of the model's alphabet
lower_char(c) ==
    CASE c = "T" -> "t"
      [] c = "S" -> "s"
      [] c = "I" -> "i"
      [] c = "Q" -> "q"
      [] c = "P" -> "p"
      [] OTHER   -> c

lower(s) == [i \in 1..Len(s) |-> lower_char(s[i])]

\* s.replace(c, '') for a one-character c
remove_char(s, c) == SelectSeq(s, LAMBDA x : x # c)

\* re.sub(pattern, repl, s) for a literal pattern that cannot overlap itself
RECURSIVE re_sub_literal(_, _, _, _)
re_sub_literal(pattern, repl, s, i) ==
    IF i > Len(s) THEN <<>>
    ELSE IF startswith_at(s, pattern, i)
         THEN repl \o re_sub_literal(pattern, repl, s, i + Len(pattern))
         ELSE <<s[i]>> \o re_sub_literal(pattern, repl, s, i + 1)

\* re.findall(pattern, s) for such a pattern: where it matches
re_findall_literal(pattern, s) ==
    SelectSeq([i \in 1..Len(s) |-> i], LAMBDA i : startswith_at(s, pattern, i))

(***************************************************************************)
(* reformat_magnaprobe.py: header and data                                 *)
(***************************************************************************)
COMMA == <<",">>
NAN_FIELD == <<"n", "a", "n">>
\* the regular expression r"\(m\) " and its replacement "(m), "
M_SPACE == <<"(", "m", ")", " ">>
M_COMMA_SPACE == <<"(", "m", ")", ",", " ">>

\* len(line.split(','))
nfields(line) == Len(split(line, ","))

\* check_column_counts(header, data)
check_column_counts(header, data) ==
    LET nheader     == nfields(header)
        count_match == {nheader = nfields(data[i]) : i \in 1..Len(data)}
        passed1     == ~(Cardinality(count_match) > 1)
        passed2     == \A b \in count_match : b
    IN  passed1 /\ passed2

\* read_combined_file(fp) on a file of the given lines
read_combined_file(lines) ==
    [header |-> IF Len(lines) = 0 THEN <<>> ELSE strip(lines[1]),
     data   |-> [i \in 1..(IF Len(lines) = 0 THEN 0 ELSE Len(lines) - 1) |->
                    strip(lines[i + 1])]]

\* remove_trailing_comma(header)
remove_trailing_comma(header) == slice(header, 1, Len(header))

\* check_missing_comma_in_header(header), as the truth value of its list
check_missing_comma_in_header(header) ==
    Len(re_findall_literal(M_SPACE, header)) > 0

\* fix_missing_comma_in_header(header)
fix_missing_comma_in_header(header) ==
    re_sub_literal(M_SPACE, M_COMMA_SPACE, header, 1)

\* reformat_header without lower()
reformat_header_keep_case(header) ==
    LET fields == split(header, ",")
    IN  join(COMMA,
             [i \in 1..Len(fields) |->
                join(<<"_">>,
                     whitespace_split(
                        remove_char(remove_char(strip(fields[i]), "("), ")")))])

\* reformat_header(header)
reformat_header(header) ==
    LET fields == split(header, ",")
    IN  join(COMMA,
             [i \in 1..Len(fields) |->
                join(<<"_">>,
                     whitespace_split(
                        remove_char(remove_char(lower(strip(fields[i])), "("),
                                    ")")))])

\* check_data_fields(header, data)
check_data_fields(header, data) ==
    \A i \in 1..Len(data) : nfields(data[i]) = nfields(header)

\* fix_data_line(nheader, line); ['nan'] * nmissing is [] when nmissing <= 0
fix_data_line(nheader, line) ==
    LET l1       == IF endswith(line, COMMA) THEN slice(line, 1, Len(line)) ELSE line
        fields   == split(l1, ",")
        nmissing == nheader - Len(fields)
    IN  join(COMMA,
             fields \o [i \in 1..(IF nmissing > 0 THEN nmissing ELSE 0) |-> NAN_FIELD])

\* fix_data_fields(header, data)
fix_data_fields(header, data) ==
    LET nheader == nfields(header)
    IN  [i \in 1..Len(data) |->
            IF nfields(data[i]) # nheader
            THEN fix_data_line(nheader, data[i])
            ELSE data[i]]

(***************************************************************************)
(* re: the regular expressions of the code are sequences of atoms, an atom *)
(* a character class repeated between min and max times (max -1: no        *)
(* limit), greedily and with backtracking; a group spans atoms.            *)
(***************************************************************************)
DIGIT == {"0", "1", "2", "3", "4", "5", "6", "7", "8", "9"}
SEPARATOR == {"_", "-"}

\* \d{n}, [_-]*, \d+, ..., and . (any character but a newline)
Atom(chars, min, max) == [any |-> FALSE, chars |-> chars, min |-> min, max |-> max]
AnyChar(min, max) == [any |-> TRUE, chars |-> {}, min |-> min, max |-> max]
Literal(str) == [i \in 1..Len(str) |-> Atom({str[i]}, 1, 1)]

atom_accepts(a, c) == IF a.any THEN c # "\n" ELSE c \in a.chars

\* how many characters from pos on the atom can take at most
RECURSIVE atom_run(_, _, _, _)
atom_run(a, s, pos, n) ==
    IF (a.max >= 0 /\ n >= a.max) \/ pos + n > Len(s) THEN n
    ELSE IF atom_accepts(a, s[pos + n]) THEN atom_run(a, s, pos, n + 1)
    ELSE n

NO_MATCH == [ok |-> FALSE, start |-> 0, ends |-> <<>>]

\* atoms k.. of pat matched from pos: where each atom's match ends (the
\* position after it), the longest choice of each atom tried first
RECURSIVE re_atoms(_, _, _, _)
RECURSIVE re_try(_, _, _, _, _)
re_try(pat, s, k, pos, n) ==
    IF n < pat[k].min THEN NO_MATCH
    ELSE LET rest == re_atoms(pat, s, k + 1, pos + n)
         IN  IF rest.ok
             THEN [ok |-> TRUE, start |-> pos, ends |-> <<pos + n>> \o rest.ends]
             ELSE re_try(pat, s, k, pos, n - 1)

re_atoms(pat, s, k, pos) ==
    IF k > Len(pat) THEN [ok |-> TRUE, start |-> pos, ends |-> <<>>]
    ELSE re_try(pat, s, k, pos, atom_run(pat[k], s, pos, 0))

\* pattern.match(s) : a match at the start of s
re_match(pat, s) == re_atoms(pat, s, 1, 1)

\* pattern.search(s) : the leftmost match
RECURSIVE re_search_from(_, _, _)
re_search_from(pat, s, pos) ==
    IF pos > Len(s) + 1 THEN NO_MATCH
    ELSE LET m == re_atoms(pat, s, 1, pos)
         IN  IF m.ok THEN m ELSE re_search_from(pat, s, pos + 1)

re_search(pat, s) == re_search_from(pat, s, 1)

\* m.groups() : the text of each group, a group being <<first atom, last atom>>
re_groups(m, s, groups) ==
    [g \in 1..Len(groups) |->
        slice(s,
              IF groups[g][1] = 1 THEN m.start ELSE m.ends[groups[g][1] - 1],
              m.ends[groups[g][2]])]

(***************************************************************************)
(* reformat_magnaprobe.py: paths                                           *)
(***************************************************************************)
\* a path is [root, dir, name]: fp.parts[-2:] are dir and name
RAW_PATH == "MOSAiC_Observations/raw/MOSAiC_magnaprobe"
REFORMAT_PATH == "MOSAiC_Observations/reformat/MOSAiC_magnaprobe"

\* r"(\d{8})[_-]*(PS122-\d+[_-]\d+[_-]\d+)"
ACTIVITY_PATTERN ==
    <<Atom(DIGIT, 8, 8), Atom(SEPARATOR, 0, -1)>>
    \o Literal(<<"P", "S", "1", "2", "2", "-">>)
    \o <<Atom(DIGIT, 1, -1), Atom(SEPARATOR, 1, 1), Atom(DIGIT, 1, -1),
         Atom(SEPARATOR, 1, 1), Atom(DIGIT, 1, -1)>>

ACTIVITY_GROUPS == <<<<1, 1>>, <<3, 13>>>>

\* r"(\d{8})[_-]*(PS122[_-]\d+)[_-]*(\d+[_-]+\d*)_(.*).csv"
FILENAME_PATTERN ==
    <<Atom(DIGIT, 8, 8), Atom(SEPARATOR, 0, -1)>>
    \o Literal(<<"P", "S", "1", "2", "2">>)
    \o <<Atom(SEPARATOR, 1, 1), Atom(DIGIT, 1, -1), Atom(SEPARATOR, 0, -1),
         Atom(DIGIT, 1, -1), Atom(SEPARATOR, 1, -1), Atom(DIGIT, 0, -1),
         Atom({"_"}, 1, 1), AnyChar(0, -1), AnyChar(1, 1)>>
    \o Literal(<<"c", "s", "v">>)

FILENAME_GROUPS == <<<<1, 1>>, <<3, 9>>, <<11, 13>>, <<15, 15>>>>

\* fix_activity(s) : the name, or the ValueError raised
fix_activity(s) ==
    LET m == re_search(ACTIVITY_PATTERN, s)
    IN  IF m.ok
        THEN LET g == re_groups(m, s, ACTIVITY_GROUPS)
             IN  [raised |-> "", value |-> join(<<"_">>, <<g[1], g[2]>>)]
        ELSE [raised |-> "ValueError: No match for date and activity pattern",
              value |-> <<>>]

\* parse_filename(fn) : the groups, or the ValueError raised
parse_filename(fn) ==
    LET m == re_search(FILENAME_PATTERN, fn)
    IN  IF m.ok
        THEN [raised |-> "", value |-> re_groups(m, fn, FILENAME_GROUPS)]
        ELSE [raised |-> "ValueError: No match for filename pattern",
              value |-> <<>>]

\* fix_filename with the location group taken up to the end of the name,
\* r"...(.*.csv)", so that the extension is written twice
fix_filename_ext(fn) ==
    LET p == parse_filename(fn)
    IN  IF p.raised # "" THEN p
        ELSE [raised |-> "",
              value |-> <<"m", "a", "g", "n", "a", "p", "r", "o", "b", "e", "_", "a", "n", "d", "_", "g", "e", "m", "2", "_", "t", "r", "a", "n", "s", "e", "c", "t", "_">>
                        \o p.value[1] \o <<"_">> \o p.value[2] \o <<"_">>
                        \o p.value[3] \o <<"_">> \o p.value[4]
                        \o <<".", "c", "s", "v">> \o <<".", "c", "s", "v">>]

\* fix_filename(fn)
fix_filename(fn) ==
    LET p == parse_filename(fn)
    IN  IF p.raised # "" THEN p
        ELSE [raised |-> "",
              value |-> <<"m", "a", "g", "n", "a", "p", "r", "o", "b", "e", "_", "a", "n", "d", "_", "g", "e", "m", "2", "_", "t", "r", "a", "n", "s", "e", "c", "t", "_">>
                        \o p.value[1] \o <<"_">> \o p.value[2] \o <<"_">>
                        \o p.value[3] \o <<"_">> \o p.value[4]
                        \o <<".", "c", "s", "v">>]

\* make_output_filepath(fp) : fix_activity is evaluated before fix_filename
make_output_filepath(fp) ==
    LET a == fix_activity(fp.dir)
        f == fix_filename(fp.name)
    IN  IF a.raised # "" THEN a
        ELSE IF f.raised # "" THEN f
        ELSE [raised |-> "",
              value |-> [root |-> REFORMAT_PATH, dir |-> a.value, name |-> f.value]]

(***************************************************************************)
(* reformat_magnaprobe.py: reformat_combined_file                          *)
(***************************************************************************)
NEWLINE == <<"\n">>

MISMATCH == "ValueError: Mismatch between header and data columns persists"

\* write_reformatted_data(header, data, outfile) : the lines written
write_reformatted_data(header, data) ==
    <<header \o NEWLINE>> \o [i \in 1..Len(data) |-> data[i] \o NEWLINE]

\* reformat_combined_file without the second check_column_counts (lines
\* 138-139): whatever the repairs gave is written
reformat_combined_file_unchecked(fp, lines) ==
    LET r  == read_combined_file(lines)
        c0 == check_column_counts(r.header, r.data)
        h1 == IF ~c0 /\ endswith(r.header, COMMA)
              THEN remove_trailing_comma(r.header) ELSE r.header
        h2 == IF ~c0 /\ check_missing_comma_in_header(h1)
              THEN fix_missing_comma_in_header(h1) ELSE h1
        d2 == IF ~c0 /\ check_data_fields(h2, r.data)
              THEN fix_data_fields(h2, r.data) ELSE r.data
        outpath == make_output_filepath(fp)
    IN  IF outpath.raised # ""
        THEN [raised |-> outpath.raised, written |-> <<>>]
        ELSE [raised |-> "",
              written |-> <<[path  |-> outpath.value,
                             lines |-> write_reformatted_data(reformat_header(h2), d2)]>>]

\* reformat_combined_file(fp) on a file of the given lines: the exception
\* raised ("" if none) and the files written, each [path, lines]
reformat_combined_file(fp, lines) ==
    LET r  == read_combined_file(lines)
        c0 == check_column_counts(r.header, r.data)
        h1 == IF ~c0 /\ endswith(r.header, COMMA)
              THEN remove_trailing_comma(r.header) ELSE r.header
        h2 == IF ~c0 /\ check_missing_comma_in_header(h1)
              THEN fix_missing_comma_in_header(h1) ELSE h1
        d2 == IF ~c0 /\ check_data_fields(h2, r.data)
              THEN fix_data_fields(h2, r.data) ELSE r.data
        outpath == make_output_filepath(fp)
    IN  IF ~c0 /\ ~check_column_counts(h2, d2)
        THEN [raised |-> MISMATCH, written |-> <<>>]
        ELSE IF outpath.raised # ""
        THEN [raised |-> outpath.raised, written |-> <<>>]
        ELSE [raised |-> "",
              written |-> <<[path  |-> outpath.value,
                             lines |-> write_reformatted_data(reformat_header(h2), d2)]>>]

\* the file system after the writes of a call
after_writes(fs, written) ==
    [p \in DOMAIN fs \cup {written[i].path : i \in 1..Len(written)} |->
        IF \E i \in 1..Len(written) : written[i].path = p
        THEN written[CHOOSE i \in 1..Len(written) : written[i].path = p].lines
        ELSE fs[p]]

(***************************************************************************)
(* The raw files.  A header is the index column's name followed by column  *)
(* names, some of them the defective pair of two names with no comma       *)
(* between, with or without a trailing comma; a data line is some fields,  *)
(* with or without a trailing comma.                                       *)
(***************************************************************************)
\* column names after the first, and data fields of a line, at most
MaxCols == 2
MaxFields == 3
\* data lines of a file, at most
MaxData == 2

\* "T" for "Date/Time", " S (m)" for " Snow Depth (m)", " I (m) Q (m)" for
\* " Ice Thickness f1525Hz_hcp_q (m) Ice Thickness f5325Hz_hcp_i (m)"
INDEX_NAME == <<"T">>
PLAIN_NAME == <<" ", "S", " ", "(", "m", ")">>
DEFECT_NAME == <<" ", "I", " ", "(", "m", ")", " ", "Q", " ", "(", "m", ")">>

RawHeaders ==
    LET names == UNION {[1..k -> {PLAIN_NAME, DEFECT_NAME}] : k \in 0..MaxCols}
        plain == {join(COMMA, <<INDEX_NAME>> \o ns) : ns \in names}
    IN  plain \cup {h \o COMMA : h \in plain}

RawDataLines ==
    LET plain == {join(COMMA, [i \in 1..k |-> <<"1">>]) : k \in 1..MaxFields}
    IN  plain \cup {l \o COMMA : l \in plain}

\* the lines of a raw file, each ending with a newline
RawFiles ==
    {<<h \o NEWLINE>> \o [i \in 1..Len(d) |-> d[i] \o NEWLINE] :
        h \in RawHeaders,
        d \in UNION {[1..n -> RawDataLines] : n \in 0..MaxData}}

GOOD_DIR == <<"2", "0", "2", "0", "0", "1", "0", "7", "-", "P", "S", "1", "2", "2", "-", "2", "_", "1", "9", "-", "7">>
BAD_DIR == <<"r", "e", "c", "o", "n">>
GOOD_NAME == <<"m", "a", "g", "n", "a", "+", "g", "e", "m", "2", "-", "t", "r", "a", "n", "s", "e", "c", "t", "-", "2", "0", "2", "0", "0", "1", "0", "7", "_", "P", "S", "1", "2", "2", "-", "2", "_", "1", "9", "-", "7", "_", "N", ".", "c", "s", "v">>
BAD_NAME == <<"m", "a", "g", "n", "a", "+", "g", "e", "m", "2", "-", "t", "r", "a", "n", "s", "e", "c", "t", ".", "c", "s", "v">>

RawPaths ==
    {[root |-> RAW_PATH, dir |-> GOOD_DIR, name |-> GOOD_NAME],
     [root |-> RAW_PATH, dir |-> GOOD_DIR, name |-> BAD_NAME],
     [root |-> RAW_PATH, dir |-> BAD_DIR, name |-> GOOD_NAME]}

InitReformat ==
    /\ \E fp \in RawPaths, lines \in RawFiles : files = (fp :> lines)
    /\ files_in = files
    /\ df = None
    /\ df_in = None
    /\ called = ""
    /\ args = None
    /\ ret = None
    /\ raised = ""
    /\ warned = <<>>
    /\ printed = <<>>
    /\ model_runs = <<>>

\* reformat_combined_file(fp) for a file fp of the file system
Call_reformat_combined_file ==
    \E fp \in DOMAIN files :
        \E r \in {reformat_combined_file(fp, files[fp])} :
            /\ called' = "reformat_combined_file"
            /\ args' = fp
            /\ files_in' = files
            /\ files' = after_writes(files, r.written)
            /\ raised' = r.raised
            /\ ret' = None
            /\ warned' = <<>>
            /\ UNCHANGED <<df, df_in, printed, model_runs>>

NextReformat == Call_reformat_combined_file

SpecReformat == InitReformat /\ [][NextReformat]_vars

(***************************************************************************)
(* mosaic_thickness.py: load_raw_combined_data, on the header line of the  *)
(* file.  pd.read_csv names an empty header field "Unnamed: k", gives a    *)
(* repeated name the suffix ".n", keeps the columns usecols accepts and     *)
(* makes the first of them the index.                                      *)
(***************************************************************************)
UNNAMED == <<"U", "n", "n", "a", "m", "e", "d">>

\* str(n) for the small numbers of the model
str_digit(n) == <<"0", "1", "2", "3", "4", "5", "6", "7", "8", "9">>[n + 1]

\* the column names read_csv gives the fields of a header line
read_csv_names(header) ==
    LET fields == split(header, ",")
        earlier(i) == Cardinality({j \in 1..(i - 1) : fields[j] = fields[i]})
    IN  [i \in 1..Len(fields) |->
            IF Len(fields[i]) = 0
            THEN UNNAMED \o <<":", " ", str_digit(i - 1)>>
            ELSE IF earlier(i) > 0
            THEN fields[i] \o <<".", str_digit(earlier(i))>>
            ELSE fields[i]]

\* these_columns(x) : "Unnamed" not in x
these_columns(x) ==
    ~\E i \in 1..Len(x) : startswith_at(x, UNNAMED, i)

\* load_raw_combined_data(fp).columns for a file with the given header line
load_raw_combined_data(header) ==
    LET used    == SelectSeq(read_csv_names(header), these_columns)
        columns == IF Len(used) = 0 THEN <<>> ELSE Tail(used)
    IN  [i \in 1..Len(columns) |->
            join(<<"_">>,
                 whitespace_split(
                    remove_char(remove_char(lower(strip(columns[i])), "("), ")")))]

\* column names of a header line after the first, at most
MaxNames == 3

\* " P  S " for a name with a run of blanks and a blank at its end
SPACED_NAME == <<" ", "P", " ", " ", "S", " ">>

HeaderLines ==
    LET names == UNION {[1..k -> {PLAIN_NAME, DEFECT_NAME, SPACED_NAME}] :
                            k \in 0..MaxNames}
        plain == {join(COMMA, <<INDEX_NAME>> \o ns) : ns \in names}
    IN  plain \cup {h \o COMMA : h \in plain}

InitHeader ==
    /\ args \in HeaderLines
    /\ called = ""
    /\ ret = None
    /\ raised = ""
    /\ warned = <<>>
    /\ df = None
    /\ df_in = None
    /\ files = <<>>
    /\ files_in = <<>>
    /\ printed = <<>>
    /\ model_runs = <<>>

Call_reformat_header ==
    /\ called' = "reformat_header"
    /\ ret' = reformat_header(args)
    /\ raised' = ""
    /\ UNCHANGED <<args, warned, df, df_in, files, files_in, printed, model_runs>>

Call_load_raw_combined_data ==
    /\ called' = "load_raw_combined_data"
    /\ ret' = load_raw_combined_data(args)
    /\ raised' = ""
    /\ UNCHANGED <<args, warned, df, df_in, files, files_in, printed, model_runs>>

NextHeader ==
    \/ Call_reformat_header
    \/ Call_load_raw_combined_data

SpecHeader == InitHeader /\ [][NextHeader]_vars

(***************************************************************************)
(* clean_mosaic_data.py: the parsing of a raw file's path and the driver.  *)
(* A printed line is [text, arg]: the fixed text and what is formatted     *)
(* into it.                                                                *)
(***************************************************************************)
PROCESSED_MAGNAPROBE == "MOSAiC_Observations/processed/MOSAiC_magnaprobe"

LETTER ==
    {"a", "b", "c", "d", "e", "f", "g", "h", "i", "j", "k", "l", "m", "n", "o",
     "p", "q", "r", "s", "t", "u", "v", "w", "x", "y", "z",
     "A", "B", "C", "D", "E", "F", "G", "H", "I", "J", "K", "L", "M", "N", "O",
     "P", "Q", "R", "S", "T", "U", "V", "W", "X", "Y", "Z"}

\* \w
WORD == LETTER \cup DIGIT \cup {"_"}

\* activity_id_str = r'(\d{8})[-_]*(\w+)[-_]*(\d)[-_]*(\d+)[-_]*(\d+)'
activity_id_pattern ==
    <<Atom(DIGIT, 8, 8), Atom(SEPARATOR, 0, -1), Atom(WORD, 1, -1),
      Atom(SEPARATOR, 0, -1), Atom(DIGIT, 1, 1), Atom(SEPARATOR, 0, -1),
      Atom(DIGIT, 1, -1), Atom(SEPARATOR, 0, -1), Atom(DIGIT, 1, -1)>>

activity_id_groups == <<<<1, 1>>, <<3, 3>>, <<5, 5>>, <<7, 7>>, <<9, 9>>>>

\* filename_str = r'(magna.gem2)[-_]*(transect)[-_]*' + activity_id_str
\*                + r'[-_]*([\w_]*).csv'
filename_pattern ==
    Literal(<<"m", "a", "g", "n", "a">>) \o <<AnyChar(1, 1)>>
    \o Literal(<<"g", "e", "m", "2">>) \o <<Atom(SEPARATOR, 0, -1)>>
    \o Literal(<<"t", "r", "a", "n", "s", "e", "c", "t">>)
    \o <<Atom(SEPARATOR, 0, -1)>>
    \o activity_id_pattern
    \o <<Atom(SEPARATOR, 0, -1), Atom(WORD, 0, -1), AnyChar(1, 1)>>
    \o Literal(<<"c", "s", "v">>)

filename_groups ==
    <<<<1, 10>>, <<12, 19>>, <<21, 21>>, <<23, 23>>, <<25, 25>>, <<27, 27>>,
      <<29, 29>>, <<31, 31>>>>

ATTRIBUTE_ERROR == "AttributeError: 'NoneType' object has no attribute 'groups'"

\* parse_activity_id(activity_id) : the dict, or the AttributeError raised
\* (pattern.match(s) is None when s does not match) after a line is printed
parse_activity_id(activity_id) ==
    LET m == re_match(activity_id_pattern, activity_id)
    IN  IF m.ok
        THEN LET g == re_groups(m, activity_id, activity_id_groups)
             IN  [raised  |-> "",
                  value   |-> [date |-> g[1], campaign |-> g[2], leg |-> g[3],
                               activity2 |-> g[4], activity3 |-> g[5]],
                  printed |-> <<>>]
        ELSE [raised  |-> ATTRIBUTE_ERROR,
              value   |-> None,
              printed |-> <<[text |-> "Failed to parse", arg |-> activity_id]>>]

\* clean_mosaic_data.parse_filename(fname)
clean_parse_filename(fname) ==
    LET m == re_search(filename_pattern, fname)
    IN  IF m.ok
        THEN LET g == re_groups(m, fname, filename_groups)
             IN  [raised  |-> "",
                  value   |-> [content |-> g[1], transect |-> g[2],
                               date |-> g[3], campaign |-> g[4], leg |-> g[5],
                               activity2 |-> g[6], activity3 |-> g[7],
                               location |-> g[8]],
                  printed |-> <<>>]
        ELSE [raised  |-> ATTRIBUTE_ERROR,
              value   |-> None,
              printed |-> <<[text |-> "Failed to parse", arg |-> fname]>>]

\* bool(activity_and_file_attrs_match) : parse_filepath tests the function
\* itself, which it never calls, and a function object is true
activity_and_file_attrs_match == TRUE

\* parse_filepath with the AttributeError of parse_filename swallowed: the
\* fields of the directory are returned, the file's own left empty
parse_filepath_partial(path) ==
    LET a == parse_activity_id(path.dir)
        f == clean_parse_filename(path.name)
    IN  IF a.raised # "" THEN a
        ELSE IF f.raised # ""
        THEN [raised  |-> "",
              value   |-> [content |-> <<>>, transect |-> <<>>,
                           date |-> a.value.date, campaign |-> a.value.campaign,
                           leg |-> a.value.leg, activity2 |-> a.value.activity2,
                           activity3 |-> a.value.activity3, location |-> <<>>],
              printed |-> f.printed]
        ELSE f

\* parse_filepath(path) : path.parts[-2:] are the directory and the name
parse_filepath(path) ==
    LET a == parse_activity_id(path.dir)
        f == clean_parse_filename(path.name)
    IN  IF a.raised # "" THEN a
        ELSE IF f.raised # "" THEN f
        ELSE IF ~activity_and_file_attrs_match
        THEN [raised  |-> "ValueError: File and activity attributes do not match",
              value   |-> None,
              printed |-> <<>>]
        ELSE f

\* s.replace(c, repl) for a one-character c
RECURSIVE replace_char(_, _, _)
replace_char(str, c, repl) ==
    IF Len(str) = 0 THEN <<>>
    ELSE (IF Head(str) = c THEN repl ELSE <<Head(str)>>)
         \o replace_char(Tail(str), c, repl)

\* make_new_filepath(attrs)
make_new_filepath(attrs) ==
    LET activity_path ==
            attrs.date \o <<"-">> \o attrs.campaign \o <<"-">> \o attrs.leg
            \o <<"_">> \o attrs.activity2 \o <<"-">> \o attrs.activity3
        filename ==
            replace_char(attrs.content, "+", <<"-", "a", "n", "d", "-">>)
            \o <<"_">> \o attrs.transect \o <<"_">> \o activity_path
            \o <<"_">> \o attrs.location \o <<".", "c", "s", "v">>
    IN  [root |-> PROCESSED_MAGNAPROBE, dir |-> activity_path, name |-> filename]

\* check_file_structure(path, verbose=True) : load_data is not a name of the
\* module, so that the call raises NameError, which is printed and re-raised
check_file_structure(path) ==
    [raised  |-> "NameError: name 'load_data' is not defined",
     printed |-> <<[text |-> "Checking", arg |-> <<path.dir, path.name>>],
                   [text |-> "Failed to load", arg |-> path.name]>>]

\* clean_mosaic_data() from the i-th of raw_paths on: the exception that
\* ends it ("" if none) and the lines printed.  The loop is left at the
\* first path that parses (break, after check_file_structure).
RECURSIVE clean_mosaic_data_from(_, _)
clean_mosaic_data_from(raw_paths, i) ==
    IF i > Len(raw_paths) THEN [raised |-> "", printed |-> <<>>]
    ELSE LET path == raw_paths[i]
             r    == parse_filepath(path)
         IN  IF r.raised = ATTRIBUTE_ERROR
             THEN LET rest == clean_mosaic_data_from(raw_paths, i + 1)
                  IN  [raised  |-> rest.raised,
                       printed |-> r.printed
                                   \o <<[text |-> "Failed to parse filepath",
                                         arg  |-> path],
                                        [text |-> "Skipping", arg |-> None]>>
                                   \o rest.printed]
             ELSE IF r.raised # ""
             THEN LET rest == clean_mosaic_data_from(raw_paths, i + 1)
                  IN  [raised  |-> rest.raised,
                       printed |-> r.printed
                                   \o <<[text |-> "Failed to parse",
                                         arg  |-> path],
                                        [text |-> "Skipping", arg |-> None]>>
                                   \o rest.printed]
             ELSE LET c == check_file_structure(path)
                  IN  [raised  |-> c.raised,
                       printed |-> r.printed
                                   \o <<[text |-> "",
                                         arg  |-> make_new_filepath(r.value)]>>
                                   \o c.printed]

clean_mosaic_data(raw_paths) == clean_mosaic_data_from(raw_paths, 1)

(***************************************************************************)
(* The raw paths get_raw_magnaprobe_path returns: files named              *)
(* magna+gem2-transect*.csv with an activity id in the name.               *)
(***************************************************************************)
\* raw paths of a run, at most
MaxPaths == 3

\* a location that is not made of word characters
BAD_LOCATION_NAME == <<"m", "a", "g", "n", "a", "+", "g", "e", "m", "2", "-", "t", "r", "a", "n", "s", "e", "c", "t", "-", "2", "0", "2", "0", "0", "1", "0", "7", "_", "P", "S", "1", "2", "2", "-", "2", "_", "1", "9", "-", "7", "_", "N", "+", "E", ".", "c", "s", "v">>
\* the date of another day than the directory's
OTHER_DATE_NAME == <<"m", "a", "g", "n", "a", "+", "g", "e", "m", "2", "-", "t", "r", "a", "n", "s", "e", "c", "t", "-", "2", "0", "2", "0", "0", "1", "0", "8", "_", "P", "S", "1", "2", "2", "-", "2", "_", "1", "9", "-", "7", "_", "N", ".", "c", "s", "v">>

CleanPaths ==
    {[root |-> RAW_PATH, dir |-> GOOD_DIR, name |-> GOOD_NAME],
     [root |-> RAW_PATH, dir |-> GOOD_DIR, name |-> BAD_LOCATION_NAME],
     [root |-> RAW_PATH, dir |-> BAD_DIR, name |-> GOOD_NAME],
     [root |-> RAW_PATH, dir |-> GOOD_DIR, name |-> OTHER_DATE_NAME]}

InitClean ==
    /\ args \in UNION {[1..n -> CleanPaths] : n \in 1..MaxPaths}
    /\ called = ""
    /\ ret = None
    /\ raised = ""
    /\ warned = <<>>
    /\ df = None
    /\ df_in = None
    /\ files = <<>>
    /\ files_in = <<>>
    /\ printed = <<>>
    /\ model_runs = <<>>

\* parse_filepath(path) for one of the raw paths
Call_parse_filepath ==
    \E i \in 1..Len(args) :
        \E r \in {parse_filepath(args[i])} :
            /\ called' = "parse_filepath"
            /\ ret' = [path |-> args[i], value |-> r.value]
            /\ raised' = r.raised
            /\ printed' = r.printed
            /\ UNCHANGED <<args, warned, df, df_in, files, files_in, model_runs>>

\* clean_mosaic_data(), get_raw_magnaprobe_path() returning args
Call_clean_mosaic_data ==
    \E r \in {clean_mosaic_data(args)} :
        /\ called' = "clean_mosaic_data"
        /\ ret' = None
        /\ raised' = r.raised
        /\ printed' = r.printed
        /\ UNCHANGED <<args, warned, df, df_in, files, files_in, model_runs>>

NextClean ==
    \/ Call_parse_filepath
    \/ Call_clean_mosaic_data

SpecClean == InitClean /\ [][NextClean]_vars

(***************************************************************************)
(* make_transect_forcing_file.py.  The met dataset is a sequence of        *)
(* records [rsd, tas, tskin], one per time step 1, 2, ...; a mean is the   *)
(* fraction [num, den] of the sum and the number of the values that are    *)
(* not NaN, and is NaN when den is 0.  A file of this stage holds a table. *)
(***************************************************************************)
CLEAN_MAGNAPROBE == "MOSAiC_Observations/clean/MOSAiC_magnaprobe"
FORCING_MAGNAPROBE == "FORCING_DATAPATH/MOSAiC_magnaprobe"

MET_VARIABLES == <<"rsd", "tas", "tskin">>

\* new_column_name[variable]
new_column_name(variable) ==
    CASE variable = "rsd"   -> "measured_irradiance_wm2"
      [] variable = "tas"   -> "air_temperature_K"
      [] variable = "tskin" -> "surface_temperature_K"

\* Dataset.mean() of one variable: NaN values are skipped
xr_mean(values) ==
    LET kept == SelectSeq(values, notna)
    IN  [num |-> np_sum(kept, Len(kept)), den |-> Len(kept)]

np_isnan(mean) == mean.den = 0

\* get_met_data_for_one_transect leaving the time step end_time out
get_met_data_for_one_transect_half_open(metds, start_time, end_time) ==
    LET times == SelectSeq([t \in 1..Len(metds) |-> t],
                           LAMBDA t : start_time <= t /\ t < end_time)
    IN  [v \in {"rsd", "tas", "tskin"} |->
            xr_mean([k \in 1..Len(times) |-> metds[times[k]][v]])]

\* get_met_data_for_one_transect(metds, 0, start_time, end_time) : the mean
\* of each variable over the time steps start_time..end_time, ends included
get_met_data_for_one_transect(metds, start_time, end_time) ==
    LET times == SelectSeq([t \in 1..Len(metds) |-> t],
                           LAMBDA t : start_time <= t /\ t <= end_time)
    IN  [v \in {"rsd", "tas", "tskin"} |->
            xr_mean([k \in 1..Len(times) |-> metds[times[k]][v]])]

\* load_cleaned_transect(fp) : read_csv with na_values=[-999.]
load_cleaned_transect(table) ==
    [table EXCEPT !.data =
        [c \in DOMAIN table.data |->
            [i \in 1..Len(table.data[c]) |->
                IF table.data[c][i] = -999 THEN NaN ELSE table.data[c][i]]]]

\* make_forcing_filepath(transect_file)
make_forcing_filepath(transect_file) ==
    [root |-> FORCING_MAGNAPROBE,
     dir  |-> transect_file.dir,
     name |-> transect_file.name]

\* make_one_forcing_file without the test of the ice thickness (lines
\* 141-143)
make_one_forcing_file_any_thickness(transect_file, table, met_dataset) ==
    LET transect_df == load_cleaned_transect(table)
        n           == nrows(transect_df)
        met_data    == get_met_data_for_one_transect(
                            met_dataset, transect_df.index[1], transect_df.index[n])
        loading     == <<[text |-> "Loading", arg |-> transect_file.name]>>
    IN  IF \E v \in DOMAIN met_data : np_isnan(met_data[v])
        THEN [printed |-> loading \o <<[text |-> "NaN found in period for",
                                        arg  |-> transect_file.name]>>,
              written |-> <<>>]
        ELSE IF met_data["rsd"].num <= 0
        THEN [printed |-> loading \o <<[text |-> "Measured irradiance is zero for",
                                        arg  |-> transect_file.name]>>,
              written |-> <<>>]
        ELSE LET fp_out == make_forcing_filepath(transect_file)
                 out == [index   |-> transect_df.index,
                         columns |-> transect_df.columns
                                     \o [k \in 1..3 |-> new_column_name(MET_VARIABLES[k])],
                         data    |->
                            [c \in DOMAIN transect_df.data
                                   \cup {new_column_name(MET_VARIABLES[k]) : k \in 1..3} |->
                                IF c \in DOMAIN transect_df.data
                                THEN transect_df.data[c]
                                ELSE [i \in 1..n |->
                                        met_data[CHOOSE v \in {"rsd", "tas", "tskin"} :
                                                    new_column_name(v) = c]]]]
             IN  [printed |-> loading \o <<[text |-> "Writing forcing data to",
                                            arg  |-> fp_out]>>,
                  written |-> <<[path |-> fp_out, lines |-> out]>>]

\* make_one_forcing_file(transect_file, met_dataset, verbose=True) for the
\* table the file holds: the lines printed and the file written
make_one_forcing_file(transect_file, table, met_dataset) ==
    LET transect_df == load_cleaned_transect(table)
        n           == nrows(transect_df)
        met_data    == get_met_data_for_one_transect(
                            met_dataset, transect_df.index[1], transect_df.index[n])
        loading     == <<[text |-> "Loading", arg |-> transect_file.name]>>
    IN  IF \E v \in DOMAIN met_data : np_isnan(met_data[v])
        THEN [printed |-> loading \o <<[text |-> "NaN found in period for",
                                        arg  |-> transect_file.name]>>,
              written |-> <<>>]
        ELSE IF met_data["rsd"].num <= 0
        THEN [printed |-> loading \o <<[text |-> "Measured irradiance is zero for",
                                        arg  |-> transect_file.name]>>,
              written |-> <<>>]
        ELSE IF \E i \in 1..n : isna(transect_df.data["ice_thickness_m"][i])
        THEN [printed |-> loading \o <<[text |-> "Ice thickness is missing for",
                                        arg  |-> transect_file.name]>>,
              written |-> <<>>]
        ELSE LET fp_out == make_forcing_filepath(transect_file)
                 out == [index   |-> transect_df.index,
                         columns |-> transect_df.columns
                                     \o [k \in 1..3 |-> new_column_name(MET_VARIABLES[k])],
                         data    |->
                            [c \in DOMAIN transect_df.data
                                   \cup {new_column_name(MET_VARIABLES[k]) : k \in 1..3} |->
                                IF c \in DOMAIN transect_df.data
                                THEN transect_df.data[c]
                                ELSE [i \in 1..n |->
                                        met_data[CHOOSE v \in {"rsd", "tas", "tskin"} :
                                                    new_column_name(v) = c]]]]
             IN  [printed |-> loading \o <<[text |-> "Writing forcing data to",
                                            arg  |-> fp_out]>>,
                  written |-> <<[path |-> fp_out, lines |-> out]>>]

(***************************************************************************)
(* The cleaned transects and the met datasets.  A cleaned transect has the *)
(* columns of KEEP_THESE_COLUMNS; its rows are one time step apart from    *)
(* its first; -999 is the file's code for a missing value.  The met        *)
(* dataset may end before the transect does.                               *)
(***************************************************************************)
\* time steps of the met dataset, at most
MaxTimes == 2

\* ice thickness in a cleaned file: positive, negative, missing
CleanThickVals == {10, -2, -999}

CleanedTable(start, n, thickness) ==
    [index   |-> [i \in 1..n |-> start + i - 1],
     columns |-> KEEP_THESE_COLUMNS,
     data    |-> [c \in {KEEP_THESE_COLUMNS[k] : k \in 1..Len(KEEP_THESE_COLUMNS)} |->
                    CASE c = "ice_thickness_m"     -> thickness
                      [] c = "lat"                 -> [i \in 1..n |-> 90]
                      [] c = "local_x"             -> DiagX(n)
                      [] c = "local_y"             -> DiagY(n)
                      [] c = "snow_depth_m"        -> [i \in 1..n |-> 3]
                      [] c = "surface_type"        -> [i \in 1..n |-> 1]
                      [] c = "transect_distance_m" -> [i \in 1..n |-> 5 * (i - 1)]
                      [] c = "ice_thickness_flag"  -> [i \in 1..n |-> 1]
                      [] OTHER                     -> [i \in 1..n |-> 0]]]

CleanedTables ==
    {CleanedTable(start, Len(thickness), thickness) :
        start \in 1..(MaxTimes + 1),
        thickness \in UNION {[1..n -> CleanThickVals] : n \in 1..MaxRows}}

\* a time step of the met dataset: all measured, no or negative irradiance,
\* or one variable missing
MetRecords ==
    {[rsd |-> 5,   tas |-> 270, tskin |-> 272],
     [rsd |-> 0,   tas |-> 270, tskin |-> 272],
     [rsd |-> -1,  tas |-> 270, tskin |-> 272],
     [rsd |-> NaN, tas |-> 270, tskin |-> 272],
     [rsd |-> 5,   tas |-> NaN, tskin |-> 272],
     [rsd |-> 5,   tas |-> 270, tskin |-> NaN]}

MetDatasets == UNION {[1..n -> MetRecords] : n \in 1..MaxTimes}

CLEAN_NAME == <<"t", ".", "c", "s", "v">>

InitForcing ==
    /\ \E table \in CleanedTables, metds \in MetDatasets :
        /\ args = [transect_file |-> [root |-> CLEAN_MAGNAPROBE,
                                      dir  |-> GOOD_DIR,
                                      name |-> CLEAN_NAME],
                   met_dataset   |-> metds]
        /\ files = (args.transect_file :> table)
    /\ files_in = files
    /\ called = ""
    /\ ret = None
    /\ raised = ""
    /\ warned = <<>>
    /\ df = None
    /\ df_in = None
    /\ printed = <<>>
    /\ model_runs = <<>>

\* make_one_forcing_file(transect_file, met_dataset)
Call_make_one_forcing_file ==
    \E r \in {make_one_forcing_file(args.transect_file,
                                    files[args.transect_file],
                                    args.met_dataset)} :
        /\ called' = "make_one_forcing_file"
        /\ files_in' = files
        /\ files' = after_writes(files, r.written)
        /\ printed' = r.printed
        /\ ret' = None
        /\ raised' = ""
        /\ UNCHANGED <<args, warned, df, df_in, model_runs>>

NextForcing == Call_make_one_forcing_file

SpecForcing == InitForcing /\ [][NextForcing]_vars

(***************************************************************************)
(* rtmodel.py.  Depths and thicknesses are in tenths of a metre, fluxes in *)
(* W/m2; a PAR value is in 1/10000 micromole per m2 per s, so that the     *)
(* factors 0.79, 0.5 and 4.44 are the whole numbers 79, 50 and 444.  What  *)
(* SeaIceRT answers for an observation is an input of the model.           *)
(***************************************************************************)
lt(v, k) == notna(v) /\ notna(k) /\ v < k

\* sw2par_underice, sw2par_openwater : SW2PAR = 0.79, 0.5
sw2par_underice(irradiance) == irradiance * 79
sw2par_openwater(irradiance) == irradiance * 50

\* rad2quanta_underice, rad2quanta_openwater : RAD2QUANTA = 4.44
rad2quanta_underice(irradiance) == irradiance * 444
rad2quanta_openwater(irradiance) == irradiance * 444

get_qpar_openwater(irradiance) == rad2quanta_openwater(sw2par_openwater(irradiance))
get_qpar_underice(irradiance) == rad2quanta_underice(sw2par_underice(irradiance))

FLUX_COLUMN == "downwelling_radiative_flux_absorbed_by_ocean"

\* flux_to_par with the open-water factor wherever there is no snow
flux_to_par_snow(d) ==
    IF ~in_df("ice_thickness_m", d)
    THEN [raised |-> "KeyError: 'ice_thickness_m'", df |-> d]
    ELSE [raised |-> "",
          df |-> setitem(d, "par_absorbed_by_ocean",
                    [i \in 1..nrows(d) |->
                        IF gt(d.data["snow_depth_m"][i], 0)
                        THEN get_qpar_underice(d.data[FLUX_COLUMN][i])
                        ELSE get_qpar_openwater(d.data[FLUX_COLUMN][i])])]

\* flux_to_par(df) : df["ice_thickness_m"] of a table without the column
\* raises KeyError; otherwise the column par_absorbed_by_ocean is set
flux_to_par(d) ==
    IF ~in_df("ice_thickness_m", d)
    THEN [raised |-> "KeyError: 'ice_thickness_m'", df |-> d]
    ELSE [raised |-> "",
          df |-> setitem(d, "par_absorbed_by_ocean",
                    [i \in 1..nrows(d) |->
                        IF gt(d.data["ice_thickness_m"][i], 0)
                        THEN get_qpar_underice(d.data[FLUX_COLUMN][i])
                        ELSE get_qpar_openwater(d.data[FLUX_COLUMN][i])])]

BOTH_ERROR == "ValueError: Snow depth and pond depth cannot both be greater than zero"
SNOW_ERROR == "ValueError: Snow depth must be positive"
POND_ERROR == "ValueError: Melt pond depth must be positive"
ICE_ERROR == "ValueError: Ice thickness must be positive"
\* the message of seaicert_point's first ValueError formats iday_of_year,
\* which is no name of seaicert_point nor of the module
NAME_ERROR == "NameError: name 'iday_of_year' is not defined"

\* the tests of the loop of seaicert_mp without the test of snow and pond
\* both present
validate_mp_no_both_test(snow_depth, pond_depth, ice_thickness) ==
    IF lt(snow_depth, 0) THEN SNOW_ERROR
    ELSE IF lt(pond_depth, 0) THEN POND_ERROR
    ELSE IF lt(ice_thickness, 0) THEN ICE_ERROR
    ELSE ""

\* the tests of the loop of seaicert_mp without the test of the snow depth
validate_mp_no_snow_test(snow_depth, pond_depth, ice_thickness) ==
    IF gt(snow_depth, 0) /\ gt(pond_depth, 0) THEN BOTH_ERROR
    ELSE IF lt(pond_depth, 0) THEN POND_ERROR
    ELSE IF lt(ice_thickness, 0) THEN ICE_ERROR
    ELSE ""

\* the tests at the head of seaicert_mp's loop: the error raised, "" if none
validate_mp(snow_depth, pond_depth, ice_thickness) ==
    IF gt(snow_depth, 0) /\ gt(pond_depth, 0) THEN BOTH_ERROR
    ELSE IF lt(snow_depth, 0) THEN SNOW_ERROR
    ELSE IF lt(pond_depth, 0) THEN POND_ERROR
    ELSE IF lt(ice_thickness, 0) THEN ICE_ERROR
    ELSE ""

\* the tests at the head of seaicert_point
validate_point(snow_depth, pond_depth, ice_thickness) ==
    IF gt(snow_depth, 0) /\ gt(pond_depth, 0) THEN NAME_ERROR
    ELSE IF lt(snow_depth, 0) THEN SNOW_ERROR
    ELSE IF lt(pond_depth, 0) THEN POND_ERROR
    ELSE IF lt(ice_thickness, 0) THEN ICE_ERROR
    ELSE ""

\* seaicert_point(timestamp, latitude, snow_depth, pond_depth, ice_thickness,
\* surface_temperature, air_temperature), output being what
\* model.get_results() answers: the exception raised, the inputs the model
\* was run on and the tuple returned
seaicert_point(timestamp, latitude, snow_depth, pond_depth, ice_thickness, surface_temperature, air_temperature, output) ==
    LET err == validate_point(snow_depth, pond_depth, ice_thickness)
        total_flux_absorbed_by_ocean == output.sw + output.lw
    IN  IF err # ""
        THEN [raised |-> err, runs |-> <<>>, value |-> None]
        ELSE [raised |-> "",
              runs   |-> <<[latitude |-> latitude, snow_depth |-> snow_depth,
                            pond_depth |-> pond_depth,
                            sea_ice_thickness |-> ice_thickness,
                            surface_air_temperature |-> air_temperature,
                            ground_temperature |-> surface_temperature]>>,
              value  |-> <<timestamp, output.sw, output.lw,
                           total_flux_absorbed_by_ocean,
                           IF gt(ice_thickness, 0)
                           THEN get_qpar_underice(total_flux_absorbed_by_ocean)
                           ELSE get_qpar_openwater(total_flux_absorbed_by_ocean),
                           output.albedo, output.surface_flux>>]

\* the temperatures of a SeaIceRT() that were not set: "the default values
\* are used (effectively 273.15)"
DEFAULT_TEMPERATURE == 273

\* the rows before the first row of the table that fails the tests (all
\* rows if none fails)
RECURSIVE rows_run(_, _)
rows_run(d, i) ==
    IF i > nrows(d) THEN nrows(d)
    ELSE IF validate_mp(d.data["snow_depth_m"][i], d.data["melt_pond_depth_m"][i],
                        d.data["ice_thickness_mean_m"][i]) # ""
         THEN i - 1
         ELSE rows_run(d, i + 1)

\* seaicert_mp(df), outputs[i] being what model.get_results() answers for
\* row i: the exception raised, the inputs the model was run on, in order,
\* and the table returned
seaicert_mp(d, outputs) ==
    IF ~in_df("ice_thickness_mean_m", d)
    THEN [raised |-> "AttributeError: 'DataFrame' object has no attribute 'ice_thickness_mean_m'",
          runs   |-> <<>>,
          value  |-> None]
    ELSE
    LET k    == rows_run(d, 1)
        runs == [i \in 1..k |->
                    [latitude          |-> d.data["lat"][i],
                     snow_depth        |-> d.data["snow_depth_m"][i],
                     pond_depth        |-> d.data["melt_pond_depth_m"][i],
                     sea_ice_thickness |-> d.data["ice_thickness_mean_m"][i],
                     surface_air_temperature |-> DEFAULT_TEMPERATURE,
                     ground_temperature      |-> DEFAULT_TEMPERATURE]]
        result ==
            [index   |-> d.data["transect_distance_m"],
             columns |-> <<"datetime", "latitude", "snow_depth_m",
                           "melt_pond_depth_m", "ice_thickness_mean_m",
                           "sw_absorbed_by_ocean", FLUX_COLUMN, "surface_albedo",
                           "surface_downwelling_radiative_flux",
                           "transect_distance_m">>,
             data    |->
                [c \in {"datetime", "latitude", "snow_depth_m",
                        "melt_pond_depth_m", "ice_thickness_mean_m",
                        "sw_absorbed_by_ocean", FLUX_COLUMN, "surface_albedo",
                        "surface_downwelling_radiative_flux",
                        "transect_distance_m"} |->
                    CASE c = "datetime" -> d.index
                      [] c = "latitude" -> d.data["lat"]
                      [] c = "sw_absorbed_by_ocean" ->
                            [i \in 1..nrows(d) |-> outputs[i].sw]
                      [] c = FLUX_COLUMN ->
                            [i \in 1..nrows(d) |-> outputs[i].sw + outputs[i].lw]
                      [] c = "surface_albedo" ->
                            [i \in 1..nrows(d) |-> outputs[i].albedo]
                      [] c = "surface_downwelling_radiative_flux" ->
                            [i \in 1..nrows(d) |-> outputs[i].surface_flux]
                      [] OTHER -> d.data[c]]]
    IN  IF k < nrows(d)
        THEN [raised |-> validate_mp(d.data["snow_depth_m"][k + 1],
                                     d.data["melt_pond_depth_m"][k + 1],
                                     d.data["ice_thickness_mean_m"][k + 1]),
              runs   |-> runs,
              value  |-> None]
        ELSE LET r == flux_to_par(result)
             IN  IF r.raised # ""
                 THEN [raised |-> r.raised, runs |-> runs, value |-> None]
                 ELSE [raised |-> "", runs |-> runs, value |-> r.df]

(***************************************************************************)
(* The transects the radiative-transfer driver is run on and the model's   *)
(* answers.  A transect's thickness column is ice_thickness_mean_m, the    *)
(* name seaicert_mp reads, or ice_thickness_m, the name the cleaned and    *)
(* forcing files and flux_to_par use.                                      *)
(***************************************************************************)
\* an observation [snow, pond, ice]: four that pass the tests, two with a
\* missing value, and those that fail one or more of the tests
Observations ==
    {[snow |-> 3,   pond |-> 0,   ice |-> 10],
     [snow |-> 0,   pond |-> 2,   ice |-> 10],
     [snow |-> 0,   pond |-> 0,   ice |-> 10],
     [snow |-> 0,   pond |-> 0,   ice |-> 0],
     [snow |-> NaN, pond |-> 2,   ice |-> 10],
     [snow |-> 0,   pond |-> 0,   ice |-> NaN],
     [snow |-> 3,   pond |-> 2,   ice |-> 10],
     [snow |-> -1,  pond |-> 0,   ice |-> 10],
     [snow |-> 0,   pond |-> -1,  ice |-> 10],
     [snow |-> 0,   pond |-> 0,   ice |-> -2],
     [snow |-> -1,  pond |-> -1,  ice |-> -2]}

\* what SeaIceRT answers: some flux absorbed, or none
ModelOutputs ==
    {[sw |-> 10, lw |-> 1, albedo |-> 5, surface_flux |-> 100],
     [sw |-> 0,  lw |-> 0, albedo |-> 8, surface_flux |-> 0]}

THICKNESS_NAMES == {"ice_thickness_mean_m", "ice_thickness_m"}

\* the columns make_one_forcing_file adds for tskin and tas
TEMPERATURE_NAMES == <<"surface_temperature_K", "air_temperature_K">>

\* a transect of the observations obs, with or without the temperatures
RTTable(obs, thickness_name, forced) ==
    LET n == Len(obs)
        names == <<"lat", "snow_depth_m", "melt_pond_depth_m",
                   thickness_name, "transect_distance_m">>
                 \o (IF forced THEN TEMPERATURE_NAMES ELSE <<>>)
    IN  [index   |-> [i \in 1..n |-> i],
         columns |-> names,
         data    |-> [c \in {names[k] : k \in 1..Len(names)} |->
                        CASE c = "lat"                 -> [i \in 1..n |-> 85]
                          [] c = "snow_depth_m"        -> [i \in 1..n |-> obs[i].snow]
                          [] c = "melt_pond_depth_m"   -> [i \in 1..n |-> obs[i].pond]
                          [] c = "transect_distance_m" -> [i \in 1..n |-> 5 * (i - 1)]
                          [] c = "surface_temperature_K" -> [i \in 1..n |-> 270 + i]
                          [] c = "air_temperature_K"   -> [i \in 1..n |-> 268 + i]
                          [] OTHER                     -> [i \in 1..n |-> obs[i].ice]]]

RTTables ==
    {RTTable(obs, name, forced) :
        obs \in UNION {[1..n -> Observations] : n \in 1..MaxRows},
        name \in THICKNESS_NAMES,
        forced \in BOOLEAN}

\* the table flux_to_par is given: the fluxes the model answered beside the
\* transect's columns
FluxTable(d, outputs) ==
    setitem(d, FLUX_COLUMN, [i \in 1..nrows(d) |-> outputs[i].sw + outputs[i].lw])

InitRT ==
    /\ df \in RTTables
    /\ df_in = df
    /\ args \in [1..nrows(df) -> ModelOutputs]
    /\ called = ""
    /\ ret = None
    /\ raised = ""
    /\ warned = <<>>
    /\ files = <<>>
    /\ files_in = <<>>
    /\ printed = <<>>
    /\ model_runs = <<>>

\* seaicert_point(...) for the observation of a row of the transect
Call_seaicert_point ==
    \E i \in 1..nrows(df) :
        \E name \in {c \in THICKNESS_NAMES : in_df(c, df)} :
            \E r \in {seaicert_point(df.index[i], df.data["lat"][i],
                                     df.data["snow_depth_m"][i],
                                     df.data["melt_pond_depth_m"][i],
                                     df.data[name][i],
                                     IF in_df("surface_temperature_K", df)
                                     THEN df.data["surface_temperature_K"][i]
                                     ELSE DEFAULT_TEMPERATURE,
                                     IF in_df("air_temperature_K", df)
                                     THEN df.data["air_temperature_K"][i]
                                     ELSE DEFAULT_TEMPERATURE,
                                     args[i])} :
                /\ called' = "seaicert_point"
                /\ ret' = [row |-> i, value |-> r.value]
                /\ raised' = r.raised
                /\ model_runs' = r.runs
                /\ UNCHANGED <<df, df_in, args, warned, files, files_in, printed>>

\* seaicert_mp(df)
Call_seaicert_mp ==
    \E r \in {seaicert_mp(df, args)} :
        /\ called' = "seaicert_mp"
        /\ ret' = r.value
        /\ raised' = r.raised
        /\ model_runs' = r.runs
        /\ UNCHANGED <<df, df_in, args, warned, files, files_in, printed>>

\* flux_to_par(df) on the transect with its fluxes
Call_flux_to_par ==
    \E r \in {flux_to_par(FluxTable(df, args))} :
        /\ called' = "flux_to_par"
        /\ ret' = r.df
        /\ raised' = r.raised
        /\ model_runs' = <<>>
        /\ UNCHANGED <<df, df_in, args, warned, files, files_in, printed>>

NextRT ==
    \/ Call_seaicert_point
    \/ Call_seaicert_mp
    \/ Call_flux_to_par

SpecRT == InitRT /\ [][NextRT]_vars

(***************************************************************************)
(* The batch drivers: reformat_magnaprobe.py reformat_combined_files and   *)
(* quick_clean_data.py quick_clean_transect_data.  A file system maps a    *)
(* path to what the file holds: the lines of a raw file, the table of a    *)
(* reformatted or cleaned file.                                            *)
(***************************************************************************)
\* r"\d{8}_PS122-\d_\d*-\d*_"
NAME_FILTER ==
    <<Atom(DIGIT, 8, 8)>> \o Literal(<<"_", "P", "S", "1", "2", "2", "-">>)
    \o <<Atom(DIGIT, 1, 1), Atom({"_"}, 1, 1), Atom(DIGIT, 0, -1),
         Atom({"-"}, 1, 1), Atom(DIGIT, 0, -1), Atom({"_"}, 1, 1)>>

RAW_PREFIX == <<"m", "a", "g", "n", "a", "+", "g", "e", "m", "2", "-", "t", "r", "a", "n", "s", "e", "c", "t">>
REFORMATTED_PREFIX == <<"m", "a", "g", "n", "a", "p", "r", "o", "b", "e", "_", "a", "n", "d", "_", "g", "e", "m", "2", "_", "t", "r", "a", "n", "s", "e", "c", "t">>
CSV_SUFFIX == <<".", "c", "s", "v">>

\* the paths under root named <prefix>*.csv whose name the filter is found in
glob_filtered(fs, root, prefix) ==
    {fp \in DOMAIN fs :
        /\ fp.root = root
        /\ startswith_at(fp.name, prefix, 1)
        /\ endswith(fp.name, CSV_SUFFIX)
        /\ Len(fp.name) >= Len(prefix) + Len(CSV_SUFFIX)
        /\ re_search(NAME_FILTER, fp.name).ok}

\* combined_files(), as a set: glob gives the paths in the directory's order
combined_files(fs) == glob_filtered(fs, RAW_PATH, RAW_PREFIX)

\* get_reformatted_files(), as a set
get_reformatted_files(fs) == glob_filtered(fs, REFORMAT_PATH, REFORMATTED_PREFIX)

\* the orders a glob can give the paths of S in
Orders(S) ==
    {o \in [1..Cardinality(S) -> S] :
        \A i, j \in 1..Cardinality(S) : o[i] = o[j] => i = j}

\* reformat_combined_files leaving the loop at the first exception
RECURSIVE reformat_combined_files_stop(_, _, _)
reformat_combined_files_stop(filepath, i, fs) ==
    IF i > Len(filepath) THEN [files |-> fs, printed |-> <<>>]
    ELSE LET r == reformat_combined_file(filepath[i], fs[filepath[i]])
         IN  IF r.raised # ""
             THEN [files |-> fs, printed |-> <<[text |-> r.raised, arg |-> None]>>]
             ELSE LET rest == reformat_combined_files_stop(filepath, i + 1,
                                                           after_writes(fs, r.written))
                  IN  [files |-> rest.files, printed |-> rest.printed]

\* reformat_combined_files() from the i-th of filepath on, on the file
\* system fs: the file system left and the lines printed
RECURSIVE reformat_combined_files(_, _, _)
reformat_combined_files(filepath, i, fs) ==
    IF i > Len(filepath) THEN [files |-> fs, printed |-> <<>>]
    ELSE LET r == reformat_combined_file(filepath[i], fs[filepath[i]])
         IN  IF r.raised # ""
             THEN LET rest == reformat_combined_files(filepath, i + 1, fs)
                  IN  [files   |-> rest.files,
                       printed |-> <<[text |-> r.raised, arg |-> None]>>
                                   \o rest.printed]
             ELSE LET rest == reformat_combined_files(filepath, i + 1,
                                                      after_writes(fs, r.written))
                  IN  [files |-> rest.files, printed |-> rest.printed]

INDEX_ERROR == "IndexError: index 1 is out of bounds for axis 0 with size 1"

\* parse_raw_combined_data(fp) on the table the file holds: the exception
\* raised, the table returned and the warnings
try_parse_raw_combined_data(d) ==
    IF nrows(d) >= 2
    THEN LET r == parse_raw_combined_data(d)
         IN  [raised |-> "", df |-> r.df, warnings |-> r.warnings]
    ELSE [raised   |-> INDEX_ERROR,
          df       |-> None,
          warnings |-> assign_ice_thickness(d).warnings
                       \o assign_melt_pond_depth(d).warnings
                       \o assign_snow_depth(d).warnings]

\* Path(f.parents[3], "clean", *f.parts[-3:-1]) / f.name
clean_outpath(f) == [root |-> CLEAN_MAGNAPROBE, dir |-> f.dir, name |-> f.name]

\* quick_clean_transect_data() from the i-th of the reformatted files on:
\* the file system left, the lines printed and the warnings
RECURSIVE quick_clean_transect_data(_, _, _)
quick_clean_transect_data(reformatted, i, fs) ==
    IF i > Len(reformatted)
    THEN [files |-> fs, printed |-> <<>>, warnings |-> <<>>]
    ELSE LET f == reformatted[i]
             r == try_parse_raw_combined_data(fs[f])
         IN  IF r.raised # ""
             THEN LET rest == quick_clean_transect_data(reformatted, i + 1, fs)
                  IN  [files    |-> rest.files,
                       printed  |-> <<[text |-> r.raised, arg |-> None]>>
                                    \o rest.printed,
                       warnings |-> r.warnings \o rest.warnings]
             ELSE LET rest == quick_clean_transect_data(reformatted, i + 1,
                                 after_writes(fs, <<[path  |-> clean_outpath(f),
                                                     lines |-> r.df]>>))
                  IN  [files    |-> rest.files,
                       printed  |-> <<[text |-> "",
                                      arg  |-> [i |-> i - 1, path |-> clean_outpath(f)]]>>
                                    \o rest.printed,
                       warnings |-> r.warnings \o rest.warnings]

(***************************************************************************)
(* The directories the drivers are run on: raw files, some of them with a  *)
(* name or a directory the patterns do not match or with rows the repairs  *)
(* cannot fit to the header, or reformatted files, some of them of a       *)
(* single row.                                                             *)
(***************************************************************************)
\* files of a directory, at most
MaxBatch == 3

BatchRawPaths ==
    {[root |-> RAW_PATH, dir |-> GOOD_DIR, name |-> GOOD_NAME],
     [root |-> RAW_PATH, dir |-> GOOD_DIR, name |-> OTHER_DATE_NAME],
     [root |-> RAW_PATH, dir |-> BAD_DIR,  name |-> GOOD_NAME],
     [root |-> RAW_PATH, dir |-> GOOD_DIR, name |-> BAD_NAME]}

\* header and rows that agree; a header with the missing comma and a
\* trailing comma; rows longer than the header
BatchRawFiles ==
    {<<INDEX_NAME \o COMMA \o PLAIN_NAME \o NEWLINE, <<"1", ",", "1">> \o NEWLINE>>,
     <<INDEX_NAME \o COMMA \o DEFECT_NAME \o COMMA \o NEWLINE,
       <<"1", ",", "1", ",", "1">> \o NEWLINE>>,
     <<INDEX_NAME \o COMMA \o PLAIN_NAME \o NEWLINE,
       <<"1", ",", "1", ",", "1">> \o NEWLINE>>}

BatchReformattedPaths ==
    {[root |-> REFORMAT_PATH, dir |-> fix_activity(GOOD_DIR).value,
      name |-> fix_filename(GOOD_NAME).value],
     [root |-> REFORMAT_PATH, dir |-> fix_activity(GOOD_DIR).value,
      name |-> fix_filename(OTHER_DATE_NAME).value],
     [root |-> REFORMAT_PATH, dir |-> fix_activity(GOOD_DIR).value,
      name |-> fix_filename(BAD_LOCATION_NAME).value],
     [root |-> REFORMAT_PATH, dir |-> fix_activity(GOOD_DIR).value,
      name |-> GOOD_NAME]}

BatchTables ==
    {Table(1, DiagX(1), DiagY(1), (CH_18KHZ :> <<10>>)),
     Table(2, DiagX(2), DiagY(2), (CH_18KHZ :> <<10, -2>>)),
     Table(2, DiagX(2), DiagY(2),
           [c \in {"snow_depth_m", "melt_pond_depth_m"} |-> <<3, 0>>])}

\* the directories of at most MaxBatch files
Directories(paths, contents) ==
    UNION {[P -> contents] :
             P \in {Q \in SUBSET paths : Q # {} /\ Cardinality(Q) <= MaxBatch}}

InitBatch ==
    /\ files \in Directories(BatchRawPaths, BatchRawFiles)
                 \cup Directories(BatchReformattedPaths, BatchTables)
    /\ files_in = files
    /\ df = None
    /\ df_in = None
    /\ called = ""
    /\ args = None
    /\ ret = None
    /\ raised = ""
    /\ warned = <<>>
    /\ printed = <<>>
    /\ model_runs = <<>>

\* reformat_combined_files(), run once on the directory as found
Call_reformat_combined_files ==
    /\ called = ""
    /\ \E filepath \in Orders(combined_files(files)) :
         \E r \in {reformat_combined_files(filepath, 1, files)} :
            /\ called' = "reformat_combined_files"
            /\ args' = filepath
            /\ files_in' = files
            /\ files' = r.files
            /\ printed' = r.printed
            /\ raised' = ""
            /\ UNCHANGED <<df, df_in, ret, warned, model_runs>>

\* quick_clean_transect_data(), run once on the directory as found
Call_quick_clean_transect_data ==
    /\ called = ""
    /\ \E reformatted \in Orders(get_reformatted_files(files)) :
         \E r \in {quick_clean_transect_data(reformatted, 1, files)} :
            /\ called' = "quick_clean_transect_data"
            /\ args' = reformatted
            /\ files_in' = files
            /\ files' = r.files
            /\ printed' = r.printed
            /\ warned' = r.warnings
            /\ raised' = ""
            /\ UNCHANGED <<df, df_in, ret, model_runs>>

NextBatch ==
    \/ Call_reformat_combined_files
    \/ Call_quick_clean_transect_data

SpecBatch == InitBatch /\ [][NextBatch]_vars

(***************************************************************************)
(* The stages in a row, on one transect: parse_raw_combined_data (written  *)
(* by quick_clean_transect_data), make_one_forcing_file, then the          *)
(* radiative-transfer driver on the forcing table.  seaicert_point is      *)
(* given a row's values; seaicert_mp is given the table with its thickness *)
(* column under either of the two names.                                   *)
(***************************************************************************)
\* a raw row: thickness positive, negative or the code -999; snow and pond
\* present or not
PipelineRows ==
    [ice : {10, -2, -999}, snow : {3, 0}, pond : {2, 0}]

PipelineTables ==
    {Table(Len(rows), DiagX(Len(rows)), DiagY(Len(rows)),
           [c \in {CH_18KHZ, "snow_depth_m", "melt_pond_depth_m"} |->
               [i \in 1..Len(rows) |->
                   CASE c = CH_18KHZ       -> rows[i].ice
                     [] c = "snow_depth_m" -> rows[i].snow
                     [] OTHER              -> rows[i].pond]]) :
        rows \in UNION {[1..n -> PipelineRows] : n \in 2..MaxRows}}

\* met datasets that cover the transect: with irradiance, without
PipelineMet ==
    {[t \in 1..(MaxRows + 1) |-> rec] :
        rec \in {[rsd |-> 5, tas |-> 270, tskin |-> 272],
                 [rsd |-> 0, tas |-> 270, tskin |-> 272]}}

PIPELINE_FILE == [root |-> CLEAN_MAGNAPROBE, dir |-> GOOD_DIR, name |-> CLEAN_NAME]

\* the table under the name the driver is given it
rename_column(d, old, new) ==
    [index   |-> d.index,
     columns |-> [k \in 1..Len(d.columns) |->
                    IF d.columns[k] = old THEN new ELSE d.columns[k]],
     data    |-> [c \in (DOMAIN d.data \ {old}) \cup {new} |->
                    IF c = new THEN d.data[old] ELSE d.data[c]]]

InitPipeline ==
    /\ df \in PipelineTables
    /\ df_in = df
    /\ args \in [met_dataset : PipelineMet,
                 outputs : {[i \in 1..MaxRows + 1 |->
                              [sw |-> 10, lw |-> 1, albedo |-> 5, surface_flux |-> 100]]}]
    /\ called = ""
    /\ ret = None
    /\ raised = ""
    /\ warned = <<>>
    /\ files = <<>>
    /\ files_in = <<>>
    /\ printed = <<>>
    /\ model_runs = <<>>

\* the cleaning stage: df becomes the cleaned table
Stage_parse_raw_combined_data ==
    /\ called = ""
    /\ \E r \in {try_parse_raw_combined_data(df)} :
        /\ called' = "parse_raw_combined_data"
        /\ raised' = r.raised
        /\ warned' = r.warnings
        /\ df' = IF r.raised = "" THEN r.df ELSE df
        /\ UNCHANGED <<df_in, args, ret, files, files_in, printed, model_runs>>

\* the forcing stage on the cleaned table: df becomes the forcing table,
\* if one is written
Stage_make_one_forcing_file ==
    /\ called = "parse_raw_combined_data"
    /\ raised = ""
    /\ \E r \in {make_one_forcing_file(PIPELINE_FILE, df, args.met_dataset)} :
        /\ called' = "make_one_forcing_file"
        /\ printed' = r.printed
        /\ files_in' = files
        /\ files' = after_writes(files, r.written)
        /\ df' = IF r.written = <<>> THEN df ELSE r.written[1].lines
        /\ UNCHANGED <<df_in, args, ret, raised, warned, model_runs>>

\* seaicert_point on a row of the forcing table
Stage_seaicert_point ==
    /\ called = "make_one_forcing_file"
    /\ files # <<>>
    /\ \E i \in 1..nrows(df) :
        \E r \in {seaicert_point(df.index[i], df.data["lat"][i],
                                 df.data["snow_depth_m"][i],
                                 df.data["melt_pond_depth_m"][i],
                                 df.data["ice_thickness_m"][i],
                                 df.data["surface_temperature_K"][i],
                                 df.data["air_temperature_K"][i],
                                 args.outputs[i])} :
            /\ called' = "seaicert_point"
            /\ ret' = [row |-> i, value |-> r.value]
            /\ raised' = r.raised
            /\ model_runs' = r.runs
            /\ UNCHANGED <<df, df_in, args, warned, files, files_in, printed>>

\* seaicert_mp on the forcing table
Stage_seaicert_mp ==
    /\ called = "make_one_forcing_file"
    /\ files # <<>>
    /\ \E name \in THICKNESS_NAMES :
        \E d \in {rename_column(df, "ice_thickness_m", name)} :
            \E r \in {seaicert_mp(d, args.outputs)} :
                /\ called' = "seaicert_mp"
                /\ df' = d
                /\ ret' = r.value
                /\ raised' = r.raised
                /\ model_runs' = r.runs
                /\ UNCHANGED <<df_in, args, warned, files, files_in, printed>>

NextPipeline ==
    \/ Stage_parse_raw_combined_data
    \/ Stage_make_one_forcing_file
    \/ Stage_seaicert_point
    \/ Stage_seaicert_mp

SpecPipeline == InitPipeline /\ [][NextPipeline]_vars

(***************************************************************************)
(* Properties of the derived-field assigners (checked under Spec).         *)
(***************************************************************************)

\* C1: assign_ice_thickness picks the thickness by a fixed priority.  If the
\* table has ice_thickness_18khz_ip_m (with or without the f18325hz column)
\* every row gets that column's value and flag 1; otherwise, if it has
\* ice_thickness_f18325hz_hcp_i_m, every row gets that column's value and
\* flag 2; otherwise every row gets NaN and flag 0 and a warning is emitted.
\* No case raises.
C1_IceThicknessPriority ==
    called = "assign_ice_thickness" =>
        /\ raised = ""
        /\ in_df("ice_thickness_m", df) /\ in_df("ice_thickness_flag", df)
        /\ Len(df.data["ice_thickness_m"]) = nrows(df_in)
        /\ Len(df.data["ice_thickness_flag"]) = nrows(df_in)
        /\ \A i \in 1..nrows(df_in) :
            IF in_df(CH_18KHZ, df_in)
            THEN /\ df.data["ice_thickness_m"][i] = df_in.data[CH_18KHZ][i]
                 /\ df.data["ice_thickness_flag"][i] = 1
            ELSE IF in_df(CH_F18325HZ, df_in)
            THEN /\ df.data["ice_thickness_m"][i] = df_in.data[CH_F18325HZ][i]
                 /\ df.data["ice_thickness_flag"][i] = 2
            ELSE /\ isna(df.data["ice_thickness_m"][i])
                 /\ df.data["ice_thickness_flag"][i] = 0
                 /\ Len(warned) = 1

\* C1's case: both channels present and different on some row, and the call
\* has taken the 18 kHz one
C1_Witness ==
    /\ called = "assign_ice_thickness"
    /\ in_df(CH_18KHZ, df_in) /\ in_df(CH_F18325HZ, df_in)
    /\ \E i \in 1..nrows(df_in) :
        /\ df_in.data[CH_18KHZ][i] # df_in.data[CH_F18325HZ][i]
        /\ df.data["ice_thickness_m"][i] = df_in.data[CH_18KHZ][i]
        /\ df.data["ice_thickness_flag"][i] = 1

\* the four cases of infer_surface_type on row i of table d
SnowOnly(d, i) ==
    gt(d.data["snow_depth_m"][i], 0) /\ le(d.data["melt_pond_depth_m"][i], 0)
PondOnly(d, i) ==
    le(d.data["snow_depth_m"][i], 0) /\ gt(d.data["melt_pond_depth_m"][i], 0)
Neither(d, i) ==
    le(d.data["snow_depth_m"][i], 0) /\ le(d.data["melt_pond_depth_m"][i], 0)
Both(d, i) ==
    gt(d.data["snow_depth_m"][i], 0) /\ gt(d.data["melt_pond_depth_m"][i], 0)

\* C2: infer_surface_type is a 4-way mutually exclusive case split.  The
\* result has one value per row, in row order; on every row whose snow and
\* pond depth are both non-null exactly one case applies, and the value is 1
\* for snow only, -1 for pond only, 2 for neither and NaN for both.
C2_SurfaceTypeCases ==
    (called = "infer_surface_type" /\ raised = "") =>
        /\ Len(ret) = nrows(df)
        /\ \A i \in 1..nrows(df) :
            (notna(df.data["snow_depth_m"][i])
             /\ notna(df.data["melt_pond_depth_m"][i])) =>
                /\ Cardinality({k \in 1..4 :
                        <<SnowOnly(df, i), PondOnly(df, i),
                          Neither(df, i), Both(df, i)>>[k]}) = 1
                /\ SnowOnly(df, i) => ret[i] = 1
                /\ PondOnly(df, i) => ret[i] = -1
                /\ Neither(df, i) => ret[i] = 2
                /\ Both(df, i) => isna(ret[i])

\* C2's case: a table of two rows in different cases, pond only before both
C2_Witness ==
    /\ called = "infer_surface_type" /\ raised = ""
    /\ nrows(df) = 2
    /\ PondOnly(df, 1) /\ Both(df, 2)
    /\ ret = <<-1, NaN>>

\* the depth column the last call assigned
AssignedColumn ==
    IF called = "assign_melt_pond_depth" THEN "melt_pond_depth_m" ELSE "snow_depth_m"

CalledDepthAssigner ==
    called \in {"assign_melt_pond_depth", "assign_snow_depth"}

\* C3: with the column present, both depth assigners leave every entry > 0
\* unchanged and replace every entry <= 0 by exactly 0; rows are neither
\* dropped nor reordered.
C3_DepthClamp ==
    (CalledDepthAssigner /\ in_df(AssignedColumn, df_in)) =>
        /\ df.index = df_in.index
        /\ Len(df.data[AssignedColumn]) = nrows(df_in)
        /\ \A i \in 1..nrows(df_in) :
            /\ gt(df_in.data[AssignedColumn][i], 0) =>
                  df.data[AssignedColumn][i] = df_in.data[AssignedColumn][i]
            /\ le(df_in.data[AssignedColumn][i], 0) =>
                  df.data[AssignedColumn][i] = 0

\* C3's case: a negative pond depth after a positive one, clamped in place
C3_Witness ==
    /\ called = "assign_melt_pond_depth"
    /\ in_df("melt_pond_depth_m", df_in)
    /\ df_in.data["melt_pond_depth_m"] = <<3, -1>>
    /\ df.data["melt_pond_depth_m"] = <<3, 0>>

\* C4: the depth assigners treat a missing column differently.  Without
\* melt_pond_depth_m, assign_melt_pond_depth adds it as 0 on every row and
\* warns; without snow_depth_m, assign_snow_depth adds it as NaN on every
\* row and warns; neither raises.
C4_MissingDepthColumn ==
    (CalledDepthAssigner /\ ~in_df(AssignedColumn, df_in)) =>
        /\ raised = ""
        /\ Len(warned) = 1
        /\ in_df(AssignedColumn, df)
        /\ Len(df.data[AssignedColumn]) = nrows(df_in)
        /\ \A i \in 1..nrows(df_in) :
            IF called = "assign_melt_pond_depth"
            THEN df.data[AssignedColumn][i] = 0
            ELSE isna(df.data[AssignedColumn][i])

\* C4's case: snow depth added as NaN to a table that had no such column
C4_Witness ==
    /\ called = "assign_snow_depth"
    /\ ~in_df("snow_depth_m", df_in)
    /\ nrows(df) = 2
    /\ df.data["snow_depth_m"] = <<NaN, NaN>>
    /\ Len(warned) = 1

\* the square of the distance between points i and j of table d
Dist2(d, i, j) ==
    (d.data["local_x"][i] - d.data["local_x"][j])
        * (d.data["local_x"][i] - d.data["local_x"][j])
    + (d.data["local_y"][i] - d.data["local_y"][j])
        * (d.data["local_y"][i] - d.data["local_y"][j])

CalledDistance == called = "transect_distance" /\ raised = ""

\* C7 as stated: for a transect of at least two points, the first value of
\* transect_distance is the distance between the first two points.
C7_FirstIsSecondStep ==
    (CalledDistance /\ nrows(df) >= 2) =>
        ret[1] * ret[1] = Dist2(df, 1, 2)

\* C7, amended: for a transect of at least two points, the first value of
\* transect_distance is 0 (the first point's previous point is the first
\* point itself), whatever the distance between the first two points.
C7_FirstIsZero ==
    (CalledDistance /\ nrows(df) >= 2) => ret[1] = 0

\* C7's case: the first two points are apart and the first value is 0
C7_Witness ==
    /\ CalledDistance
    /\ nrows(df) >= 2
    /\ Dist2(df, 1, 2) > 0
    /\ ret[1] = 0

\* C8: for a transect of at least two points, transect_distance returns one
\* value per point, never decreasing, each step being the Euclidean distance
\* between the two consecutive points.
C8_CumulativeArcLength ==
    (CalledDistance /\ nrows(df) >= 2) =>
        /\ Len(ret) = nrows(df)
        /\ \A i \in 2..nrows(df) :
            /\ ret[i] >= ret[i - 1]
            /\ (ret[i] - ret[i - 1]) * (ret[i] - ret[i - 1]) = Dist2(df, i - 1, i)

\* C8's case: three points with two steps of different length, summed
C8_Witness ==
    /\ CalledDistance
    /\ nrows(df) = 3
    /\ Dist2(df, 1, 2) = 9 /\ Dist2(df, 2, 3) = 25
    /\ ret = <<0, 3, 8>>

(***************************************************************************)
(* Properties of check_data_range (checked under SpecRange).               *)
(***************************************************************************)
\* entry i of the checked series is non-null and outside [min, max]
OutOfBounds(i) ==
    /\ notna(args.series[i])
    /\ (args.series[i] < args.min_value \/ args.series[i] > args.max_value)

\* C5: check_data_range with fix=True replaces only the out-of-bound non-null
\* entries.  An entry of the result is the fill value when the input entry
\* is non-null and outside [min, max] (bounds inclusive) and is the input
\* entry otherwise, so that in-bound and null entries are unchanged; with
\* fix=False the series is returned unchanged.
C5_FixReplacesOnlyOutOfBounds ==
    called = "check_data_range" =>
        /\ Len(ret) = Len(args.series)
        /\ \A i \in 1..Len(args.series) :
            ret[i] = IF args.fix /\ OutOfBounds(i)
                     THEN args.fill_value
                     ELSE args.series[i]

\* C6: check_data_range emits exactly one warning per call when at least one
\* non-null entry is outside [min, max], however many there are and whatever
\* fix is, and none when every non-null entry is in range.
C6_OneWarningPerCall ==
    called = "check_data_range" =>
        Len(warned) = IF \E i \in 1..Len(args.series) : OutOfBounds(i)
                      THEN 1 ELSE 0

\* C6's case: two entries out of range and fix=False, and one warning
C6_Witness ==
    /\ called = "check_data_range"
    /\ ~args.fix
    /\ Len(args.series) = 2
    /\ OutOfBounds(1) /\ OutOfBounds(2)
    /\ Len(warned) = 1

(***************************************************************************)
(* Properties of reformat_combined_file (checked under SpecReformat).      *)
(***************************************************************************)
\* the number of fields of a line: one more than it has commas
FieldCount(line) == Cardinality({i \in 1..Len(line) : line[i] = ","}) + 1

\* a file's header and data lines all have the same number of fields
Consistent(lines) ==
    \A i \in 2..Len(lines) : FieldCount(lines[i]) = FieldCount(lines[1])

\* the header and the data lines the last call read
HeaderRead == read_combined_file(files_in[args]).header
DataRead == read_combined_file(files_in[args]).data

\* the number of fields of the header read once repaired: the trailing comma
\* dropped and a comma put in wherever "(m) " has none
RepairedCount ==
    LET h == IF HeaderRead[Len(HeaderRead)] = ","
             THEN SubSeq(HeaderRead, 1, Len(HeaderRead) - 1) ELSE HeaderRead
    IN  FieldCount(h)
        + Cardinality({i \in 1..Len(h) - 3 : SubSeq(h, i, i + 3) = M_SPACE})

\* some data line read differs from the header read in its number of fields,
\* so that the header is repaired
Repairing ==
    \E i \in 1..Len(DataRead) : FieldCount(DataRead[i]) # FieldCount(HeaderRead)

CalledReformat == called = "reformat_combined_file"

\* C9: reformat_combined_file never writes a structurally inconsistent file.
\* Every file under the output directory has as many header fields as every
\* one of its data lines has fields; and if, after the header repairs, some
\* data line still differs from the header in its number of fields, the call
\* raises ValueError and writes nothing.
C9_NoInconsistentFile ==
    /\ \A p \in DOMAIN files : p.root = REFORMAT_PATH => Consistent(files[p])
    /\ (CalledReformat /\ Repairing
        /\ \E i \in 1..Len(DataRead) : FieldCount(DataRead[i]) # RepairedCount)
       => (raised = MISMATCH /\ files = files_in)

\* C9's case: a header of two fields with the missing comma, repaired to
\* three fields, written with its two data lines of three fields
C9_Witness ==
    /\ CalledReformat
    /\ raised = ""
    /\ args.root = RAW_PATH
    /\ Repairing
    /\ FieldCount(HeaderRead) = 2 /\ RepairedCount = 3
    /\ Len(DataRead) = 2
    /\ \E p \in DOMAIN files :
        /\ p.root = REFORMAT_PATH
        /\ Len(files[p]) = 3
        /\ \A i \in 1..3 : FieldCount(files[p][i]) = 3

\* C10: if after the header fixes some data lines have fewer fields than the
\* header (and none has more), the short lines are padded with 'nan' up to
\* the header's number of fields, their own fields kept, and the file is
\* written, not rejected.
C10_ShortRowsPadded ==
    (/\ CalledReformat
     /\ args.root = RAW_PATH
     /\ make_output_filepath(args).raised = ""
     /\ Repairing
     /\ \A i \in 1..Len(DataRead) : FieldCount(DataRead[i]) <= RepairedCount
     /\ \E i \in 1..Len(DataRead) : FieldCount(DataRead[i]) < RepairedCount)
    => /\ raised = ""
       /\ \E p \in DOMAIN files :
            /\ p.root = REFORMAT_PATH
            /\ Len(files[p]) = Len(DataRead) + 1
            /\ \A i \in 1..Len(DataRead) :
                FieldCount(files[p][i + 1]) = RepairedCount

\* the header line of the file the last call wrote, without its newline
WrittenHeader ==
    LET l == files[make_output_filepath(args).value][1]
    IN  SubSeq(l, 1, Len(l) - 1)

\* the named columns of a header: its fields that are not blank
NamedFields(header) ==
    LET fields == split(header, ",")
    IN  Cardinality({i \in 1..Len(fields) : Len(strip(fields[i])) > 0})

\* the places of a header where "(m) " runs into the next column's name
MissingCommas(header) ==
    {i \in 1..Len(header) - 3 : SubSeq(header, i, i + 3) = M_SPACE}

\* C11: for every file whose header line ends with a comma, the header that
\* reformat_combined_file writes has the trailing empty field removed, i.e.
\* its last column name is not empty, whatever the data lines' field counts.
C11_TrailingFieldRemoved ==
    (/\ CalledReformat
     /\ raised = ""
     /\ HeaderRead[Len(HeaderRead)] = ",")
    => WrittenHeader[Len(WrittenHeader)] # ","

\* C12: for every file whose header has "(m) " directly followed by the next
\* column's name, the header that reformat_combined_file writes has a comma
\* at each such place, so that the two names are separate columns: it has one
\* more named column per such place than the header read has.  This holds
\* with or without a trailing comma on the header read.
C12_MissingCommaInserted ==
    (/\ CalledReformat
     /\ raised = ""
     /\ MissingCommas(HeaderRead) # {})
    => NamedFields(WrittenHeader)
        = NamedFields(HeaderRead) + Cardinality(MissingCommas(HeaderRead))

\* C13: reformatting is idempotent.  A call on a file that an earlier call
\* wrote, if it accepts the file, writes it back to the same directory and
\* file name with the same header and the same data lines; and for the
\* header, the file name and the directory of every accepted file,
\* reformat_header, fix_filename and fix_activity give on their own result
\* that same result.
C13_ReformatIdempotent ==
    (CalledReformat /\ raised = "") =>
        /\ args.root = REFORMAT_PATH =>
            /\ make_output_filepath(args).value = args
            /\ files[args] = files_in[args]
            /\ files = files_in
        /\ reformat_header(reformat_header(HeaderRead)) = reformat_header(HeaderRead)
        /\ fix_filename(fix_filename(args.name).value) = fix_filename(args.name)
        /\ fix_activity(fix_activity(args.dir).value) = fix_activity(args.dir)

\* C13's case: a raw file whose header, directory and name the first call
\* changed, and a second call on the file the first one wrote
C13_Witness ==
    /\ CalledReformat
    /\ raised = ""
    /\ args.root = REFORMAT_PATH
    /\ \E p \in DOMAIN files :
        /\ p.root = RAW_PATH
        /\ p.dir # args.dir
        /\ p.name # args.name
        /\ MissingCommas(files[p][1]) # {}
        /\ files[p][1] # files[args][1]
        /\ Len(files[p]) = Len(files[args])
        /\ Len(files[args]) > 1

(***************************************************************************)
(* Properties of the header normalisation (checked under SpecHeader).      *)
(***************************************************************************)
\* the canonical identifier of a column name, read off character by
\* character from position i: brackets are skipped, blanks are remembered
\* (pending) once a character has been kept, and a kept character is written
\* in lower case after one underscore if blanks are pending
RECURSIVE CanonicalFrom(_, _, _, _)
CanonicalFrom(name, i, started, pending) ==
    IF i > Len(name) THEN <<>>
    ELSE IF name[i] \in {"(", ")"}
         THEN CanonicalFrom(name, i + 1, started, pending)
    ELSE IF isspace(name[i])
         THEN CanonicalFrom(name, i + 1, started, started)
    ELSE (IF pending THEN <<"_">> ELSE <<>>)
         \o <<lower_char(name[i])>>
         \o CanonicalFrom(name, i + 1, TRUE, FALSE)

Canonical(name) == CanonicalFrom(name, 1, FALSE, FALSE)

\* the fields of a line, cut at its commas
Fields(line) ==
    LET commas == <<0>> \o SelectSeq([i \in 1..Len(line) |-> i],
                                     LAMBDA i : line[i] = ",")
                        \o <<Len(line) + 1>>
    IN  [k \in 1..(Len(commas) - 1) |->
            SubSeq(line, commas[k] + 1, commas[k + 1] - 1)]

\* the header's column names that read_csv keeps under their own name: not
\* the index, not empty, not a repetition of an earlier name
OwnNames(header) ==
    LET f == Fields(header)
    IN  SelectSeq([i \in 1..Len(f) |-> IF i = 1 THEN <<>> ELSE f[i]],
                  LAMBDA n : Len(n) > 0)

Distinct(names) ==
    \A i, j \in 1..Len(names) : names[i] = names[j] => i = j

Unmatched(path) == path.dir = BAD_DIR \/ path.name = BAD_LOCATION_NAME

\* the lines the loop of clean_mosaic_data prints once per path: the failure
\* to parse it, or its new path
DriverLines ==
    SelectSeq(printed,
              LAMBDA l : l.text \in {"Failed to parse filepath", "Failed to parse", ""}
                         /\ l.arg \notin {BAD_DIR, BAD_LOCATION_NAME})

\* the paths the loop gets to: up to the first that parses
Reached ==
    IF \E i \in 1..Len(args) : ~Unmatched(args[i])
    THEN CHOOSE i \in 1..Len(args) :
            ~Unmatched(args[i]) /\ \A j \in 1..(i - 1) : Unmatched(args[j])
    ELSE Len(args)

\* C15: a raw file whose directory name or file name does not match the
\* expected pattern is rejected.  parse_filepath raises the AttributeError of
\* parse_activity_id / parse_filename and returns no record, not even a
\* partial one; clean_mosaic_data prints the failure for that file, prints
\* no new path for it and goes on to the next file.
C15_UnmatchedPathRejected ==
    /\ (called = "parse_filepath" /\ Unmatched(ret.path)) =>
        /\ raised = ATTRIBUTE_ERROR
        /\ ret.value = None
        /\ Len(printed) = 1 /\ printed[1].text = "Failed to parse"
    /\ called = "clean_mosaic_data" =>
        /\ Len(DriverLines) = Reached
        /\ \A i \in 1..Reached :
            Unmatched(args[i]) =>
                /\ DriverLines[i]
                    = [text |-> "Failed to parse filepath", arg |-> args[i]]
                /\ i < Len(args) =>
                    /\ Len(DriverLines) > i
                    /\ DriverLines[i + 1].text = ""
                        \/ DriverLines[i + 1].arg = args[i + 1]

\* C15's case: a file with an unmatched name, then one in an unmatched
\* directory, then one that parses: two failures printed, then a new path
C15_Witness ==
    /\ called = "clean_mosaic_data"
    /\ Len(args) = 3
    /\ args[1].name = BAD_LOCATION_NAME
    /\ args[2].dir = BAD_DIR
    /\ ~Unmatched(args[3])
    /\ Len(DriverLines) = 3
    /\ DriverLines[1].text = "Failed to parse filepath"
    /\ DriverLines[2].text = "Failed to parse filepath"
    /\ DriverLines[3].text = ""

\* the fields the directory's identifier and the file name's share
SharedFields == {"date", "campaign", "leg", "activity2", "activity3"}

\* the directory and the file name both parse, and differ on a shared field
Mismatched(path) ==
    /\ parse_activity_id(path.dir).raised = ""
    /\ clean_parse_filename(path.name).raised = ""
    /\ \E k \in SharedFields :
        parse_activity_id(path.dir).value[k] # clean_parse_filename(path.name).value[k]

\* C16: parse_filepath cross-checks directory and file name.  If the
\* identifier of the directory differs from the identifier of the file name
\* on a shared field, parse_filepath raises ValueError, and clean_mosaic_data
\* prints the cause and no new path for the file.
C16_MismatchRejected ==
    /\ (called = "parse_filepath" /\ Mismatched(ret.path)) =>
        (raised # "" /\ raised # ATTRIBUTE_ERROR /\ ret.value = None)
    /\ called = "clean_mosaic_data" =>
        \A i \in 1..Reached :
            Mismatched(args[i]) =>
                DriverLines[i] = [text |-> "Failed to parse", arg |-> args[i]]

(***************************************************************************)
(* Properties of make_one_forcing_file (checked under SpecForcing).        *)
(***************************************************************************)
\* the cleaned transect the last call read, as the file holds it
TransectRead == files_in[args.transect_file]

\* the time steps of the met dataset within the transect's first and last
MetWindow ==
    {t \in 1..Len(args.met_dataset) :
        /\ TransectRead.index[1] <= t
        /\ t <= TransectRead.index[Len(TransectRead.index)]}

\* the sum of the values of a variable over a set of time steps, the
\* missing ones left out
RECURSIVE MetSum(_, _)
MetSum(v, steps) ==
    IF steps = {} THEN 0
    ELSE LET t == CHOOSE x \in steps : TRUE
         IN  (IF args.met_dataset[t][v] = NaN THEN 0 ELSE args.met_dataset[t][v])
             + MetSum(v, steps \ {t})

\* the mean of variable v over the transect's period is NaN: no time step
\* of the period has a value
MeanIsNaN(v) == \A t \in MetWindow : args.met_dataset[t][v] = NaN

AnyMeanNaN == \E v \in {"rsd", "tas", "tskin"} : MeanIsNaN(v)
NoIrradiance == ~MeanIsNaN("rsd") /\ MetSum("rsd", MetWindow) <= 0
ThicknessMissing ==
    \E i \in 1..Len(TransectRead.index) :
        TransectRead.data["ice_thickness_m"][i] \in {-999, NaN}

ForcingPath ==
    [root |-> FORCING_MAGNAPROBE,
     dir  |-> args.transect_file.dir,
     name |-> args.transect_file.name]

Reasons == {l.text : l \in {printed[i] : i \in 1..Len(printed)}} \ {"Loading"}

\* C17: make_one_forcing_file writes a forcing file for a transect if and
\* only if no mean of a met variable is NaN, the mean irradiance rsd is
\* above 0 and no ice_thickness_m of the transect is null.  In each of the
\* three other cases it writes nothing at all and prints the reason.
C17_ForcingSkipPolicy ==
    called = "make_one_forcing_file" =>
        /\ (ForcingPath \in DOMAIN files)
            <=> (~AnyMeanNaN /\ ~NoIrradiance /\ ~ThicknessMissing)
        /\ (AnyMeanNaN \/ NoIrradiance \/ ThicknessMissing) =>
            /\ files = files_in
            /\ Cardinality(Reasons) = 1
            /\ \/ AnyMeanNaN /\ "NaN found in period for" \in Reasons
               \/ NoIrradiance /\ "Measured irradiance is zero for" \in Reasons
               \/ ThicknessMissing /\ "Ice thickness is missing for" \in Reasons
        /\ ForcingPath \in DOMAIN files => Reasons = {"Writing forcing data to"}

\* C17's case: a transect of two rows over two time steps, one of them
\* without irradiance but with a positive mean, is written with its rows
C17_Witness ==
    /\ called = "make_one_forcing_file"
    /\ Len(TransectRead.index) = 2
    /\ MetWindow = {1, 2}
    /\ args.met_dataset[1]["rsd"] = NaN
    /\ ForcingPath \in DOMAIN files
    /\ Len(files[ForcingPath].index) = 2


(***************************************************************************)
(* Properties of the radiative-transfer driver (checked under SpecRT).     *)
(***************************************************************************)
\* the observation of row i of the transect
Observation(i) ==
    [snow |-> df.data["snow_depth_m"][i],
     pond |-> df.data["melt_pond_depth_m"][i],
     ice  |-> IF in_df("ice_thickness_mean_m", df)
              THEN df.data["ice_thickness_mean_m"][i]
              ELSE df.data["ice_thickness_m"][i]]

\* snow and pond both present, or a negative depth or thickness
Invalid(o) ==
    \/ gt(o.snow, 0) /\ gt(o.pond, 0)
    \/ lt(o.snow, 0)
    \/ lt(o.pond, 0)
    \/ lt(o.ice, 0)

ValueErrors == {BOTH_ERROR, SNOW_ERROR, POND_ERROR, ICE_ERROR}

\* the model was run on an observation that fails one of the tests
RanInvalid ==
    \E k \in 1..Len(model_runs) :
        Invalid([snow |-> model_runs[k].snow_depth,
                 pond |-> model_runs[k].pond_depth,
                 ice  |-> model_runs[k].sea_ice_thickness])

\* C18: seaicert_point and seaicert_mp raise ValueError when snow depth and
\* pond depth are both > 0, when snow depth < 0, when pond depth < 0 or when
\* ice thickness < 0, and the model is run for an observation only when none
\* of these holds.
C18_ValidationRaisesValueError ==
    /\ called = "seaicert_point" =>
          IF Invalid(Observation(ret.row))
          THEN raised \in ValueErrors /\ model_runs = <<>>
          ELSE Len(model_runs) = 1
    /\ (called = "seaicert_mp" /\ in_df("ice_thickness_mean_m", df)) =>
          /\ ~RanInvalid
          /\ IF \E i \in 1..nrows(df) : Invalid(Observation(i))
             THEN raised \in ValueErrors
             ELSE Len(model_runs) = nrows(df)

\* the factor (in 1/10000) the absorbed flux is multiplied by
ParFactor(ice_thickness) ==
    IF notna(ice_thickness) /\ ice_thickness > 0 THEN 79 * 444 ELSE 50 * 444

\* the total flux absorbed by the ocean that the model answered for row i
TotalFlux(i) == args[i].sw + args[i].lw

\* C19: in flux_to_par and in seaicert_point the PAR absorbed by the ocean
\* is the total (shortwave + longwave) absorbed flux times 0.79 x 4.44 when
\* ice thickness > 0 and times 0.5 x 4.44 otherwise, so both give the same
\* PAR for the same flux and thickness and nothing else changes the factor.
C19_ParFromFluxAndThickness ==
    /\ (called = "flux_to_par" /\ raised = "") =>
          \A i \in 1..nrows(df) :
              ret.data["par_absorbed_by_ocean"][i] =
                  TotalFlux(i) * ParFactor(df.data["ice_thickness_m"][i])
    /\ (called = "seaicert_point" /\ raised = "") =>
          ret.value[5] = TotalFlux(ret.row) * ParFactor(Observation(ret.row).ice)

C19_Witness ==
    /\ called = "flux_to_par"
    /\ raised = ""
    /\ \E i, j \in 1..nrows(df) :
          /\ TotalFlux(i) > 0
          /\ TotalFlux(j) > 0
          /\ df.data["ice_thickness_m"][i] = 10
          /\ df.data["snow_depth_m"][i] = 0
          /\ df.data["ice_thickness_m"][j] = 0
          /\ ret.data["par_absorbed_by_ocean"][i] = TotalFlux(i) * 35076
          /\ ret.data["par_absorbed_by_ocean"][j] = TotalFlux(j) * 22200


(***************************************************************************)
(* Properties of parse_raw_combined_data (checked under Spec).             *)
(***************************************************************************)
\* the table returned has the ten columns, in order, and the rows of the
\* table that was read
TenColumnsOfEveryRow ==
    /\ raised = ""
    /\ ret.columns = <<"lon", "lat", "local_x", "local_y", "ice_thickness_m",
                       "snow_depth_m", "melt_pond_depth_m", "surface_type",
                       "transect_distance_m", "ice_thickness_flag">>
    /\ DOMAIN ret.data = {ret.columns[k] : k \in 1..Len(ret.columns)}
    /\ ret.index = df_in.index
    /\ \A c \in DOMAIN ret.data : Len(ret.data[c]) = nrows(df_in)

\* C20: for every input file that has lon, lat, local_x and local_y,
\* whichever optional columns are present, parse_raw_combined_data returns
\* exactly the ten columns of KEEP_THESE_COLUMNS, in that order, with one
\* row per input row.
C20_ExactlyTenColumns ==
    called = "parse_raw_combined_data" => TenColumnsOfEveryRow


(***************************************************************************)
(* Properties of the inferred surface type (checked under Spec).           *)
(***************************************************************************)
\* snow, pond, bare ice, ambiguous
SurfaceTypes == {1, -1, 2, NaN}

\* C21: every surface-type value produced by inference is 1 (snow), -1
\* (pond), 2 (bare ice) or NaN (ambiguous), also for rows whose snow or
\* pond depth is NaN, as after parse_raw_combined_data synthesized a
\* missing snow column.
C21_SurfaceTypeCategories ==
    /\ (called = "infer_surface_type" /\ raised = "") =>
          \A i \in 1..Len(ret) : ret[i] \in SurfaceTypes
    /\ (called = "parse_raw_combined_data" /\ raised = ""
           /\ ~in_df("surface_type", df_in)) =>
          \A i \in 1..nrows(ret) : ret.data["surface_type"][i] \in SurfaceTypes


(***************************************************************************)
(* Properties of the batch drivers (checked under SpecBatch).              *)
(***************************************************************************)
\* what processing the file alone gives: the exception and the file written
Alone(fp) ==
    IF called = "reformat_combined_files"
    THEN reformat_combined_file(fp, files_in[fp])
    ELSE LET r == try_parse_raw_combined_data(files_in[fp])
         IN  [raised  |-> r.raised,
              written |-> IF r.raised # "" THEN <<>>
                          ELSE <<[path |-> clean_outpath(fp), lines |-> r.df]>>]

Fails(fp) == Alone(fp).raised # ""

\* the files the driver found
Found ==
    IF called = "reformat_combined_files" THEN combined_files(files_in)
    ELSE get_reformatted_files(files_in)

\* the messages of the files that fail, in the order of the batch
RECURSIVE ErrorsFrom(_)
ErrorsFrom(i) ==
    IF i > Len(args) THEN <<>>
    ELSE (IF Fails(args[i]) THEN <<Alone(args[i]).raised>> ELSE <<>>)
         \o ErrorsFrom(i + 1)

\* the messages among the lines printed
PrintedErrors ==
    LET lines == SelectSeq(printed, LAMBDA l : l.text # "")
    IN  [k \in 1..Len(lines) |-> lines[k].text]

\* the batch without the files that fail
Others == SelectSeq(args, LAMBDA fp : ~Fails(fp))

\* the file system the driver leaves when run on the batch without the
\* files that fail
WithoutFailing ==
    IF called = "reformat_combined_files"
    THEN reformat_combined_files(Others, 1, files_in).files
    ELSE quick_clean_transect_data(Others, 1, files_in).files

\* C22: in reformat_combined_files and quick_clean_transect_data an error
\* raised while processing one file is caught and printed, that file gets
\* no output, every remaining file is processed, and the outputs are those
\* of the batch without the failing file.
C22_BatchIsolatesFailures ==
    called \in {"reformat_combined_files", "quick_clean_transect_data"} =>
        /\ raised = ""
        /\ {args[i] : i \in 1..Len(args)} = Found
        /\ PrintedErrors = ErrorsFrom(1)
        /\ DOMAIN files =
              DOMAIN files_in
              \cup {Alone(fp).written[1].path : fp \in {q \in Found : ~Fails(q)}}
        /\ \A fp \in Found :
              ~Fails(fp) => files[Alone(fp).written[1].path] = Alone(fp).written[1].lines
        /\ \A fp \in DOMAIN files_in : files[fp] = files_in[fp]
        /\ files = WithoutFailing

C22_Witness ==
    /\ called = "reformat_combined_files"
    /\ Len(args) = 3
    /\ ~Fails(args[1])
    /\ Fails(args[2])
    /\ ~Fails(args[3])
    /\ Len(printed) = 1
    /\ Alone(args[1]).written[1].path \in DOMAIN files
    /\ Alone(args[3]).written[1].path \in DOMAIN files
    /\ Cardinality(DOMAIN files) = Cardinality(DOMAIN files_in) + 2


(***************************************************************************)
(* Properties of the loop of seaicert_mp (checked under SpecRT).           *)
(***************************************************************************)
\* the first row that fails the tests, one past the last row if none does
FirstInvalid ==
    IF \E i \in 1..nrows(df) : Invalid(Observation(i))
    THEN CHOOSE i \in 1..nrows(df) :
            /\ Invalid(Observation(i))
            /\ \A j \in 1..(i - 1) : ~Invalid(Observation(j))
    ELSE nrows(df) + 1

\* the k-th run of the model was on the observation of row k
RunOfRow(k) ==
    /\ model_runs[k].latitude = df.data["lat"][k]
    /\ model_runs[k].snow_depth = Observation(k).snow
    /\ model_runs[k].pond_depth = Observation(k).pond
    /\ model_runs[k].sea_ice_thickness = Observation(k).ice

\* C23: seaicert_mp runs the model once per row, in row order; if row k is
\* the first row failing validation the call raises at row k after the model
\* was run for the rows before k only, and no table is returned.
C23_RunsUpToFirstInvalidRow ==
    (called = "seaicert_mp" /\ in_df("ice_thickness_mean_m", df)) =>
        /\ Len(model_runs) = FirstInvalid - 1
        /\ \A k \in 1..Len(model_runs) : RunOfRow(k)
        /\ FirstInvalid <= nrows(df) => (raised \in ValueErrors /\ ret = None)

C23_Witness ==
    /\ called = "seaicert_mp"
    /\ in_df("ice_thickness_mean_m", df)
    /\ nrows(df) = 2
    /\ FirstInvalid = 2
    /\ Len(model_runs) = 1
    /\ RunOfRow(1)
    /\ raised \in ValueErrors
    /\ ret = None


\* C24: for every transect whose rows all pass validation seaicert_mp
\* returns a table of one row per input row, row i holding the inputs and
\* the model outputs of input row i, indexed by transect distance, with the
\* column par_absorbed_by_ocean computed from the absorbed flux and the
\* row's ice thickness.
C24_ResultTable ==
    (called = "seaicert_mp" /\ \A i \in 1..nrows(df) : ~Invalid(Observation(i))) =>
        /\ raised = ""
        /\ nrows(ret) = nrows(df)
        /\ ret.index = df.data["transect_distance_m"]
        /\ \A i \in 1..nrows(df) :
              /\ ret.data["snow_depth_m"][i] = Observation(i).snow
              /\ ret.data["melt_pond_depth_m"][i] = Observation(i).pond
              /\ ret.data["sw_absorbed_by_ocean"][i] = args[i].sw
              /\ ret.data[FLUX_COLUMN][i] = TotalFlux(i)
              /\ ret.data["surface_albedo"][i] = args[i].albedo
              /\ ret.data["par_absorbed_by_ocean"][i] =
                    TotalFlux(i) * ParFactor(Observation(i).ice)


\* C25: if the table has the skin and the 2 m air temperature, seaicert_mp
\* passes each row's values to the model as its ground and surface air
\* temperature for that row; the model's defaults are used only when the
\* columns are absent.
C25_ForcingTemperaturesUsed ==
    (called = "seaicert_mp" /\ in_df("ice_thickness_mean_m", df)) =>
        \A k \in 1..Len(model_runs) :
            IF in_df("surface_temperature_K", df) /\ in_df("air_temperature_K", df)
            THEN /\ model_runs[k].ground_temperature =
                        df.data["surface_temperature_K"][k]
                 /\ model_runs[k].surface_air_temperature =
                        df.data["air_temperature_K"][k]
            ELSE /\ model_runs[k].ground_temperature = DEFAULT_TEMPERATURE
                 /\ model_runs[k].surface_air_temperature = DEFAULT_TEMPERATURE


(***************************************************************************)
(* Properties of the forcing file written (checked under SpecForcing).     *)
(***************************************************************************)
\* the mean of variable v over the transect's period, as sum and count of
\* the values measured
MetMean(v) ==
    [num |-> MetSum(v, MetWindow),
     den |-> Cardinality({t \in MetWindow : args.met_dataset[t][v] # NaN})]

\* the cleaned transect as read, -999. being the file's missing value
TransectAsRead ==
    [c \in DOMAIN TransectRead.data |->
        [i \in 1..Len(TransectRead.index) |->
            IF TransectRead.data[c][i] = -999 THEN NaN ELSE TransectRead.data[c][i]]]

BothPresent(i) ==
    /\ df_in.data["snow_depth_m"][i] > 0
    /\ df_in.data["melt_pond_depth_m"][i] > 0

\* row i of the raw table has a negative ice thickness
NegativeThickness(i) == df_in.data[CH_18KHZ][i] < 0

\* row i of df has the depths of the raw row and no surface type
KeptAmbiguous(i) ==
    /\ df.data["snow_depth_m"][i] = df_in.data["snow_depth_m"][i]
    /\ df.data["melt_pond_depth_m"][i] = df_in.data["melt_pond_depth_m"][i]
    /\ df.data["surface_type"][i] = NaN

\* a forcing file was written
ForcingWritten == files # <<>>

\* the first row the driver's tests fail on, one past the last if none
FirstRejected ==
    IF \E i \in 1..nrows(df_in) : BothPresent(i) \/ NegativeThickness(i)
    THEN CHOOSE i \in 1..nrows(df_in) :
            /\ BothPresent(i) \/ NegativeThickness(i)
            /\ \A j \in 1..(i - 1) : ~(BothPresent(j) \/ NegativeThickness(j))
    ELSE nrows(df_in) + 1

ThicknessCopiedThenRejected ==
    /\ called = "parse_raw_combined_data" =>
          /\ raised = ""
          /\ df.data["ice_thickness_m"] = df_in.data[CH_18KHZ]
    /\ (called = "make_one_forcing_file" /\ ForcingWritten) =>
          /\ nrows(df) = nrows(df_in)
          /\ df.data["ice_thickness_m"] = df_in.data[CH_18KHZ]
    /\ (called = "seaicert_point" /\ NegativeThickness(ret.row)) =>
          /\ raised # ""
          /\ ret.value = None
          /\ model_runs = <<>>
          /\ ~BothPresent(ret.row) => raised = ICE_ERROR
    /\ (called = "seaicert_mp" /\ in_df("ice_thickness_mean_m", df)
           /\ \E i \in 1..nrows(df_in) : NegativeThickness(i)) =>
          /\ raised \in ValueErrors
          /\ ret = None
          /\ \A k \in 1..Len(model_runs) : ~NegativeThickness(k)
          /\ (NegativeThickness(FirstRejected) /\ ~BothPresent(FirstRejected))
                => raised = ICE_ERROR

C28_NaNDepthBecomesZero ==
    (CalledDepthAssigner /\ in_df(AssignedColumn, df_in)) =>
        \A i \in 1..nrows(df_in) :
            /\ notna(df.data[AssignedColumn][i])
            /\ df.data[AssignedColumn][i] >= 0
            /\ isna(df_in.data[AssignedColumn][i]) => df.data[AssignedColumn][i] = 0

\* C28's case: a missing snow depth beside a measured zero, both 0 after
C28_Witness ==
    /\ called = "assign_snow_depth"
    /\ in_df("snow_depth_m", df_in)
    /\ df_in.data["snow_depth_m"] = <<NaN, 0>>
    /\ df.data["snow_depth_m"] = <<0, 0>>


Assigners == {"assign_ice_thickness", "assign_melt_pond_depth", "assign_snow_depth"}

\* the table after one more call of the assigner of that name
Reapplied(name, d) ==
    CASE name = "assign_ice_thickness"   -> assign_ice_thickness(d).df
      [] name = "assign_melt_pond_depth" -> assign_melt_pond_depth(d).df
      [] name = "assign_snow_depth"      -> assign_snow_depth(d).df

DERIVED_COLUMNS ==
    {"ice_thickness_m", "ice_thickness_flag", "melt_pond_depth_m", "snow_depth_m"}

SOURCE_COLUMNS == {CH_18KHZ, CH_F18325HZ, "lon", "lat", "local_x", "local_y"}

\* the columns an assigner writes
AssignedBy(name) ==
    CASE name = "assign_ice_thickness"   -> {"ice_thickness_m", "ice_thickness_flag"}
      [] name = "assign_melt_pond_depth" -> {"melt_pond_depth_m"}
      [] name = "assign_snow_depth"      -> {"snow_depth_m"}

\* the columns of cols that table a has are in table b with the same entries
SameColumns(a, b, cols) ==
    \A c \in cols : in_df(c, a) => (in_df(c, b) /\ b.data[c] = a.data[c])

\* C29: once an assigner has been applied, applying it again leaves
\* ice_thickness_m, ice_thickness_flag, melt_pond_depth_m and snow_depth_m as
\* they are, applying another assigner leaves the columns of the first as
\* they are, and no assigner changes a thickness channel or lon, lat,
\* local_x, local_y.
C29_AssignersIdempotent ==
    called \in Assigners =>
        /\ SameColumns(df_in, df, SOURCE_COLUMNS)
        /\ SameColumns(df, Reapplied(called, df), DERIVED_COLUMNS)
        /\ \A name \in Assigners :
               SameColumns(df, Reapplied(name, df),
                           DERIVED_COLUMNS \ AssignedBy(name))

=============================================================================
